---- MODULE Spec2Model ----
(***************************************************************************)
(* Model of the recognition pipeline of the inventory bot:                  *)
(*   app/image_processor.py   calculate_resistor_value, process_image       *)
(*   app/data_extractor.py    ComponentDataExtractor                        *)
(*   app/vision_recognition.py VisionRecognizer                             *)
(*   app/bot.py               handle_photo, handle_photo_quantity,          *)
(*                            add_component_start, cancel                   *)
(*   app/component_classifier.py ComponentClassifier.classify               *)
(*                                                                         *)
(* Python values are rendered as follows.  None is the string NONE where a  *)
(* string is expected and the record NoData where a dict is expected.  A    *)
(* JSON null is the string JNULL and an absent key the string MISSING.      *)
(* In the results of calculate_resistor_value the ohm sign is written      *)
(* "Ohm" and the plus-minus sign "+/-"; the tables of the classifier keep   *)
(* their characters.                                                        *)
(***************************************************************************)
EXTENDS Integers, Sequences, FiniteSets, TLC

VARIABLES
    calc_colors,        \* argument handed to calculate_resistor_value
    calc_result,        \* what calculate_resistor_value returned for it
    pc,                 \* where handle_photo stands: idle, download, ocr, llm, vision, done
    authorized,         \* is_authorized(update.effective_user)
    groq_client,        \* ComponentDataExtractor.client is set (GROQ_API_KEY)
    vision_provider,    \* VisionRecognizer.provider: "none", "openai", "google"
    detected_colors,    \* colors_detected['detected_colors'], <<>> when there is none
    ocr_text,           \* ocr_text, a sequence of words
    llm_outcome,        \* how the try block of extract_component_data ended
    text_data,          \* what extract_component_data returned
    vision_outcome,     \* how the provider behaved when recognize_component ran
    vision_result,      \* what recognize_component returned, or that it raised
    extracted_data,     \* extracted_data
    calls,              \* the extractors invoked for this photograph, in order
    replies,            \* the terminal replies sent for this photograph, in order
    preview,            \* the text preview in the reply: "none", "text", "no_text_detected"
    user_data,          \* context.user_data: the stored component and the awaiting flag
    temp_file,          \* the temporary image file of this photograph exists
    photos,             \* the number of the photograph this invocation handles
    candidate,          \* which photograph built the dict in user_data['component'], 0: none
    entered,            \* the keys the /add steps wrote into user_data['component']
    store,              \* the rows inserted into the components table, in order
    conversation,       \* state of the /add ConversationHandler for the user
    chat_reply,         \* the last reply to a text message or command
    cancelled,          \* the candidates pending when the user said skip or /cancel
    class_text,         \* argument handed to ComponentClassifier.classify
    class_result,       \* what classify returned for it
    ocr_yields,         \* what each preprocessing strategy yields on the image
    ocr_next,           \* process_image: 0 not called, 1..3 the strategy up next, 4 returned
    ocr_results,        \* process_image: the results dict
    ocr_tried,          \* process_image: the strategies tried so far, in order
    band_pc,            \* detect_resistor_colors: idle, loop, red, done
    band_image,         \* the image: readable or not, its edge density, its pixel counts
    band_next,          \* detect_resistor_colors: the place in color_ranges up next
    band_detected,      \* detect_resistor_colors: detected_colors, pairs <<name, count>>
    band_result,        \* what detect_resistor_colors returned
    fallback_text,      \* the text _fallback_extraction is called with
    fallback_result     \* what _fallback_extraction returned for it

calc_vars == <<calc_colors, calc_result>>

class_vars == <<class_text, class_result>>

ocr_vars == <<ocr_yields, ocr_next, ocr_results, ocr_tried>>

band_vars == <<band_pc, band_image, band_next, band_detected, band_result>>

fallback_vars == <<fallback_text, fallback_result>>

photo_vars ==
    <<pc, authorized, groq_client, vision_provider, detected_colors, ocr_text, llm_outcome,
      text_data, vision_outcome, vision_result, extracted_data, calls, replies,
      preview, user_data, temp_file>>

chat_vars == <<photos, store, conversation, chat_reply, cancelled>>

photo_vars_but_user_data ==
    <<pc, authorized, groq_client, vision_provider, detected_colors, ocr_text, llm_outcome,
      text_data, vision_outcome, vision_result, extracted_data, calls, replies,
      preview, temp_file>>

vars ==
    <<calc_vars, class_vars, ocr_vars, band_vars, fallback_vars, photo_vars, candidate,
      entered, chat_vars>>

NONE == "<None>"
JNULL == "<null>"
MISSING == "<missing>"

(***************************************************************************)
(* image_processor.py: the resistor colour tables                          *)
(***************************************************************************)
RESISTOR_COLOR_CODES ==
    [black |-> 0, brown |-> 1, red |-> 2, orange |-> 3, yellow |-> 4,
     green |-> 5, blue |-> 6, violet |-> 7, gray |-> 8, grey |-> 8, white |-> 9]

\* The multiplier table, each multiplier m written as its exponent e, m = 10^e
\* (gold 0.1 and silver 0.01 are the exponents -1 and -2).
RESISTOR_MULTIPLIERS ==
    [black |-> 0, brown |-> 1, red |-> 2, orange |-> 3, yellow |-> 4,
     green |-> 5, blue |-> 6, violet |-> 7, gold |-> 0 - 1, silver |-> 0 - 2]

RESISTOR_TOLERANCE ==
    [brown |-> "1%", red |-> "2%", gold |-> "5%", silver |-> "10%", none |-> "20%"]

\* dict.get(key, default) of the tolerance lookup
DefaultTolerance == "+/-20%"

\* str.lower() on the names the model uses
Lower(s) ==
    CASE s = "Red" -> "red"
      [] s = "Resistor" -> "resistor"
      [] s = "UNKNOWN" -> "unknown"
      [] s = "Widget" -> "widget"
      [] OTHER -> s

RECURSIVE Pow10(_)
Pow10(n) == IF n = 0 THEN 1 ELSE 10 * Pow10(n - 1)

ValueAbove(d, e, k) ==
    IF e >= k THEN d > 1 ELSE d > Pow10(k - e)

\* d * 10^e >= 10^k, for the integer d and the exponents e, k
ValueAtLeast(d, e, k) ==
    IF e >= k THEN d >= 1 ELSE d >= Pow10(k - e)

\* The digit pairs d for which the float d * 0.01 lies below the decimal tie
\* n.n5 or is an exact tie that format() rounds to even.
HalfDown == {15, 25, 85}

\* f"{x:.1f}" of x = d * 10^e / 10^k, as the number of tenths it prints
Tenths(d, e, k) ==
    IF e - k + 1 >= 0
    THEN d * Pow10(e - k + 1)
    ELSE \* only d * 0.01 with k = 0: two decimals rounded to one
         IF d % 10 < 5 \/ (d % 10 = 5 /\ d \in HalfDown)
         THEN d \div 10
         ELSE (d \div 10) + 1

OneDecimal(t) == ToString(t \div 10) \o "." \o ToString(t % 10)

\* lines 397-403: the unit chosen by magnitude
FormatValue(d, e) ==
    IF ValueAtLeast(d, e, 6) THEN OneDecimal(Tenths(d, e, 6)) \o "MOhm"
    ELSE IF ValueAtLeast(d, e, 3) THEN OneDecimal(Tenths(d, e, 3)) \o "kOhm"
    ELSE OneDecimal(Tenths(d, e, 0)) \o "Ohm"

\* dict.get(key) of the digit and multiplier lookups: Absent stands for None
Absent == 0 - 1000

DigitOfZeroFill(c) ==
    IF c \in DOMAIN RESISTOR_COLOR_CODES THEN RESISTOR_COLOR_CODES[c] ELSE 0

DigitOf(c) ==
    IF c \in DOMAIN RESISTOR_COLOR_CODES THEN RESISTOR_COLOR_CODES[c] ELSE Absent

MultiplierOf(c) ==
    IF c \in DOMAIN RESISTOR_MULTIPLIERS THEN RESISTOR_MULTIPLIERS[c] ELSE Absent

\* line 407: RESISTOR_TOLERANCE.get(colors[3].lower(), default)
ToleranceLabel(c) ==
    IF c \in DOMAIN RESISTOR_TOLERANCE THEN RESISTOR_TOLERANCE[c] ELSE DefaultTolerance

calculate_resistor_value(colors) ==
    IF Len(colors) < 3 THEN NONE
    ELSE LET digit1 == DigitOf(Lower(colors[1]))
             digit2 == DigitOf(Lower(colors[2]))
             multiplier == MultiplierOf(Lower(colors[3]))
         IN  IF digit1 = Absent \/ digit2 = Absent \/ multiplier = Absent
             THEN NONE
             ELSE LET formatted == FormatValue(digit1 * 10 + digit2, multiplier)
                  IN  IF Len(colors) >= 4
                      THEN formatted \o " " \o ToleranceLabel(Lower(colors[4]))
                      ELSE formatted

(***************************************************************************)
(* image_processor.py: process_image.  A text is the record of the         *)
(* strategy and the Tesseract configuration that read it and of its length; *)
(* every empty text is the same string.                                     *)
(***************************************************************************)
\* line 241
STRATEGIES == <<"balanced", "minimal", "aggressive">>

ALT_RETRY_BELOW == 5
GOOD_ENOUGH == 15

EmptyText == [strategy |-> "", config |-> "", len |-> 0]

Text(strategy, config, len) ==
    IF len = 0 THEN EmptyText
    ELSE [strategy |-> strategy, config |-> config, len |-> len]

\* What a strategy yields on the image: preprocess_image raises, or the two
\* Tesseract configurations read texts of these lengths (extract_text returns
\* the empty text when Tesseract raises)
Yield(failed, primary, alt) == [failed |-> failed, primary |-> primary, alt |-> alt]

\* lines 248-258: the text of one strategy (line 254 for the retry, 257 for the choice)
StrategyText(strategy, y) ==
    LET text == Text(strategy, "primary", y.primary)
        text_alt == Text(strategy, "alt", y.alt)
    IN  IF text.len < ALT_RETRY_BELOW /\ text_alt.len > text.len
        THEN text_alt
        ELSE text

\* lines 222-235: the results dict before the loop
NewResults(colors) == [text |-> EmptyText, strategy_used |-> "", colors |-> colors]

StrategyStepNoBreak(results, next, y) ==
    IF y.failed THEN [results |-> results, next |-> next + 1]
    ELSE LET text == StrategyText(STRATEGIES[next], y)
         IN  IF text.len > 0 /\ text.len > results.text.len
             THEN [results |-> [results EXCEPT !.text = text,
                                               !.strategy_used = STRATEGIES[next]],
                   next |-> next + 1]
             ELSE [results |-> results, next |-> next + 1]

StrategyStepLastWins(results, next, y) ==
    IF y.failed THEN [results |-> results, next |-> next + 1]
    ELSE LET text == StrategyText(STRATEGIES[next], y)
         IN  IF text.len > 0 /\ text.len >= results.text.len
             THEN [results |-> [results EXCEPT !.text = text,
                                               !.strategy_used = STRATEGIES[next]],
                   next |-> IF text.len > GOOD_ENOUGH THEN 4 ELSE next + 1]
             ELSE [results |-> results, next |-> next + 1]

\* lines 243-271: one iteration of the loop over the strategies; next is 4
\* after the break and after the last strategy
StrategyStep(results, next, y) ==
    IF y.failed THEN [results |-> results, next |-> next + 1]
    ELSE LET text == StrategyText(STRATEGIES[next], y)
         IN  IF text.len > 0 /\ text.len > results.text.len
             THEN [results |-> [results EXCEPT !.text = text,
                                               !.strategy_used = STRATEGIES[next]],
                   next |-> IF text.len > GOOD_ENOUGH THEN 4 ELSE next + 1]
             ELSE [results |-> results, next |-> next + 1]

(***************************************************************************)
(* image_processor.py: detect_resistor_colors.  An image is what the        *)
(* function measures on it: whether cv2.imread reads it, whether its edge   *)
(* density is above 0.15, the pixel count of each colour's mask in the      *)
(* order of color_ranges, and the pixel count of the upper red mask.        *)
(***************************************************************************)
\* line 199: detected_colors[:4]
MaxDetected == 4

\* lines 152-165: the keys of color_ranges, in order
COLOR_RANGES ==
    <<"black", "brown", "red", "orange", "yellow", "green", "blue", "violet", "gray",
      "white", "gold", "silver">>

\* line 138: img_area, the same for every image of the model
TOTAL_PIXELS == 1000

MIN_PIXELS == 100
MAX_PERCENT == 40
MAX_COLORS == 6

Image(readable, dense, count, red_upper_count) ==
    [readable |-> readable, dense |-> dense, count |-> count,
     red_upper_count |-> red_upper_count]

NoImage == Image(FALSE, FALSE, <<>>, 0)

\* detect_resistor_colors returned None
NoBands == [present |-> FALSE, detected_colors |-> <<>>]

\* line 177: pixel_count > 100 and (pixel_count / total_pixels) < 0.4
PassesFilter(pixel_count) ==
    pixel_count > MIN_PIXELS /\ pixel_count * 100 < MAX_PERCENT * TOTAL_PIXELS

Names(detected) == [i \in 1..Len(detected) |-> detected[i][1]]

Unsorted(detected) == detected

\* The later pair goes behind the earlier pairs with a count at least as high
RECURSIVE InsertByCount(_, _)
InsertByCount(pair, sorted) ==
    IF sorted = <<>> THEN <<pair>>
    ELSE IF Head(sorted)[2] >= pair[2]
    THEN <<Head(sorted)>> \o InsertByCount(pair, Tail(sorted))
    ELSE <<pair>> \o sorted

RECURSIVE SortByCountFrom(_, _)
SortByCountFrom(detected, n) ==
    IF n = 0 THEN <<>>
    ELSE InsertByCount(detected[n], SortByCountFrom(detected, n - 1))

\* line 188: detected_colors.sort(key=lambda x: x[1], reverse=True), a stable
\* sort
SortByCount(detected) ==
    SortByCountFrom(detected, Len(detected))

\* lines 181-185: the upper red mask counts when the lower one was not accepted
WithUpperRed(detected, image) ==
    IF \A i \in 1..Len(detected) : detected[i][1] # "red"
    THEN IF PassesFilter(image.red_upper_count)
         THEN Append(detected, <<"red", image.red_upper_count>>)
         ELSE detected
    ELSE detected

\* lines 188-201: sort, the two rejections, the first four names
BandsOf(detected) ==
    LET sorted == SortByCount(detected)
    IN  IF Len(sorted) > MAX_COLORS \/ sorted = <<>> THEN NoBands
        ELSE [present |-> TRUE,
              detected_colors |->
                  Names(SubSeq(sorted, 1,
                               IF Len(sorted) < MaxDetected THEN Len(sorted)
                               ELSE MaxDetected))]

(***************************************************************************)
(* Candidates (the dicts the extractors return).  A value that JSON may     *)
(* deliver in any shape is a record [shape, items]; a confidence as it      *)
(* arrives is a record [t, v] with t one of num, numstr (a string float()   *)
(* accepts), str (a string it rejects), null, missing.                      *)
(***************************************************************************)
Shaped(shape, items) == [shape |-> shape, items |-> items]
EmptyDict == Shaped("dict", <<>>)
MissingValue == Shaped(MISSING, <<>>)

Conf(t, v) == [t |-> t, v |-> v]

Data(type, confidence, specs, tags, method) ==
    [present |-> TRUE, component_type |-> type, recognition_confidence |-> confidence,
     specifications |-> specs, tags |-> tags, recognition_method |-> method]

\* Python's None where a candidate dict is expected
NoData ==
    [present |-> FALSE, component_type |-> MISSING, recognition_confidence |-> 0,
     specifications |-> MissingValue, tags |-> MissingValue, recognition_method |-> MISSING]

\* bool(x) of a shaped value: None, an absent key and empty containers are falsy
Truthy(x) == x.shape \notin {MISSING, JNULL} /\ Len(x.items) > 0

(***************************************************************************)
(* data_extractor.py                                                       *)
(***************************************************************************)
\* The OCR text is a sequence of words; its length counts the joining blanks.
RECURSIVE TextLen(_)
TextLen(text) ==
    IF text = <<>> THEN 0
    ELSE Len(Head(text)) + (IF Len(text) > 1 THEN 1 ELSE 0) + TextLen(Tail(text))

\* str.lower(), on the letters the texts of the model use
UpperChars == "ABCDEFGHIJKLMNOPQRSTUVWXYZΩ"
LowerChars == "abcdefghijklmnopqrstuvwxyzω"

UpperSet == {SubSeq(UpperChars, i, i) : i \in 1..Len(UpperChars)}

LowerChar(c) ==
    IF c \in UpperSet
    THEN LET i == CHOOSE i \in 1..Len(UpperChars) : SubSeq(UpperChars, i, i) = c
         IN  SubSeq(LowerChars, i, i)
    ELSE c

RECURSIVE LowerFrom(_, _)
LowerFrom(s, i) ==
    IF i > Len(s) THEN ""
    ELSE LowerChar(SubSeq(s, i, i)) \o LowerFrom(s, i + 1)

LowerText(s) == LowerFrom(s, 1)

LowerWords(text) == [i \in 1..Len(text) |-> LowerText(text[i])]

\* _detect_component_type: the categories in the order of the patterns dict
FallbackOrder ==
    <<"arduino", "microcontroller", "resistor", "capacitor", "ic", "led",
      "connector", "transistor", "diode", "sensor">>

\* The words, in lower case, that each category's single-word patterns match
PatternWords ==
    [arduino |-> {"arduino", "mega", "nano", "micro", "leonardo", "due"},
     microcontroller |-> {"atmega328", "stm32", "esp32", "esp8266", "mcu", "rp2040"},
     resistor |-> {"10kω", "resistor", "ohm"},
     capacitor |-> {"100uf", "cap", "farad"},
     ic |-> {"555", "7805", "2560", "chip"},
     led |-> {"led"},
     connector |-> {"connector", "header", "jst", "usb"},
     transistor |-> {"transistor", "mosfet", "bjt", "2n2222"},
     diode |-> {"diode", "1n4007", "rectifier"},
     sensor |-> {"sensor", "dht22", "bmp280", "mpu6050"}]

\* re.search of a category's patterns in the lower-cased text that line 176
\* passes (re.IGNORECASE changes nothing on it); \buno\b.*\br3\b and
\* \batmega\d+.*\b(arduino|board)\b span two words
CategoryMatches(cat, word) ==
    \/ \E i \in 1..Len(word) : word[i] \in PatternWords[cat]
    \/ /\ cat = "arduino"
       /\ \E i, j \in 1..Len(word) :
             /\ i < j
             /\ \/ word[i] = "uno" /\ word[j] = "r3"
                \/ word[i] = "atmega328" /\ word[j] = "board"

DetectLastCategory(text) ==
    IF \E k \in 1..Len(FallbackOrder) : CategoryMatches(FallbackOrder[k], text)
    THEN FallbackOrder[CHOOSE k \in 1..Len(FallbackOrder) :
                          /\ CategoryMatches(FallbackOrder[k], text)
                          /\ \A m \in (k + 1)..Len(FallbackOrder) :
                                ~CategoryMatches(FallbackOrder[m], text)]
    ELSE "unknown"

_detect_component_type(text) ==
    IF \E k \in 1..Len(FallbackOrder) : CategoryMatches(FallbackOrder[k], text)
    THEN FallbackOrder[CHOOSE k \in 1..Len(FallbackOrder) :
                          /\ CategoryMatches(FallbackOrder[k], text)
                          /\ \A m \in 1..(k - 1) : ~CategoryMatches(FallbackOrder[m], text)]
    ELSE "unknown"

\* _extract_specs_by_type, on the words of the model: a resistance is found in
\* a resistor's text when a value with its unit (either case of the omega) is
\* among the words
_extract_specs_by_type(text, type) ==
    IF type = "resistor" /\ \E i \in 1..Len(text) : LowerText(text[i]) = "10kω"
    THEN Shaped("dict", <<"resistance">>)
    ELSE EmptyDict

FALLBACK_CONFIDENCE == 30

\* line 173 lowers the text once and line 176 detects the type on it: the two
\* are values here (bound by the set constructors), computed once each
_fallback_extraction(text) ==
    CHOOSE data \in
        {IF component_type = "unknown" THEN NoData
         ELSE Data(component_type, FALLBACK_CONFIDENCE,
                   _extract_specs_by_type(text, component_type),
                   Shaped("list", <<component_type>>), MISSING) :
            component_type \in {_detect_component_type(text_lower) :
                                   text_lower \in {LowerWords(text)}}} : TRUE

DEFAULT_CONFIDENCE == 50

\* float() raises on None (TypeError) and on a non-numeric string (ValueError)
FloatRaises(c) == c.t \in {"null", "str"}

ClampOrDefault(c) ==
    LET x == IF c.t = "missing" \/ c.v = 0 THEN DEFAULT_CONFIDENCE ELSE c.v
    IN  IF x < 0 THEN 0 ELSE IF x > 100 THEN 100 ELSE x

\* min(100, max(0, float(data.get('recognition_confidence', 50))))
Clamp(c) ==
    LET x == IF c.t = "missing" THEN DEFAULT_CONFIDENCE ELSE c.v
    IN  IF x < 0 THEN 0 ELSE IF x > 100 THEN 100 ELSE x

\* str(data.get('component_type', 'unknown')).lower()
CleanType(type) ==
    IF type = MISSING THEN "unknown"
    ELSE IF type = JNULL THEN "none"
    ELSE Lower(type)

\* data.get(key) or default, then forced to the container type
CleanContainer(x, shape) ==
    IF Truthy(x) /\ x.shape = shape THEN x ELSE Shaped(shape, <<>>)

\* _validate_and_clean of a parsed JSON object (a dict)
_validate_and_clean(data) ==
    Data(CleanType(data.component_type),
         Clamp(data.recognition_confidence),
         CleanContainer(data.specifications, "dict"),
         CleanContainer(data.tags, "list"),
         MISSING)

\* A candidate already built, as the argument data of _validate_and_clean
AsArgument(type, confidence, specs, tags) ==
    [component_type |-> type, recognition_confidence |-> confidence,
     specifications |-> specs, tags |-> tags]

\* A reply of the language-model engine: kind is call_failure (the request
\* raised), empty, non_json, json_other (valid JSON that is not an object) or
\* json_dict (an object with the fields of the record).
LlmReply(kind, type, confidence, specs, tags) ==
    [kind |-> kind, component_type |-> type, recognition_confidence |-> confidence,
     specifications |-> specs, tags |-> tags]

\* What happens inside the try block of extract_component_data
LlmFailure(client, reply) ==
    IF ~client THEN "no_client"
    ELSE IF reply.kind # "json_dict" THEN reply.kind
    ELSE IF FloatRaises(reply.recognition_confidence) THEN "bad_confidence"
    ELSE "ok"

extract_no_fallback(client, text, reply) ==
    IF LlmFailure(client, reply) = "ok" THEN _validate_and_clean(reply) ELSE NoData

extract_component_data(client, text, reply) ==
    IF LlmFailure(client, reply) = "ok"
    THEN _validate_and_clean(reply)
    ELSE _fallback_extraction(text)

(***************************************************************************)
(* vision_recognition.py                                                   *)
(***************************************************************************)
\* A behaviour of the configured vision provider.  kind is import_error or
\* api_error (raised before a response exists), non_json, json_other, or
\* json_dict (OpenAI: the object replied; Google: the annotations, of which
\* labels are the words of the labels and of the text found).
VisionReply(kind, type, confidence, specs, labels) ==
    [kind |-> kind, component_type |-> type, recognition_confidence |-> confidence,
     specifications |-> specs, labels |-> labels]

RawData(type, confidence, specs, method) ==
    [present |-> TRUE, raised |-> FALSE, component_type |-> type,
     recognition_confidence |-> confidence, specifications |-> specs,
     recognition_method |-> method]

NoResult ==
    [present |-> FALSE, raised |-> FALSE, component_type |-> MISSING,
     recognition_confidence |-> Conf("missing", 0), specifications |-> MissingValue,
     recognition_method |-> MISSING]

\* The call did not return: an exception left the function
Raised == [NoResult EXCEPT !.raised = TRUE]

\* json is bound by the import statement inside the try block, after the
\* request: an exception raised before it reaches "except json.JSONDecodeError"
\* with the local name unbound, and that raises UnboundLocalError.
recognize_with_openai(reply) ==
    IF reply.kind \in {"import_error", "api_error"} THEN Raised
    ELSE IF reply.kind = "json_dict"
    THEN RawData(reply.component_type, reply.recognition_confidence,
                 reply.specifications, "openai_vision")
    ELSE NoResult

_infer_type_from_labels(labels) ==
    IF "resistor" \in labels \/ "resistance" \in labels THEN "resistor"
    ELSE IF "capacitor" \in labels THEN "capacitor"
    ELSE IF "arduino" \in labels \/ "microcontroller" \in labels THEN "arduino"
    ELSE IF "circuit" \in labels \/ "board" \in labels THEN "module"
    ELSE IF "led" \in labels \/ "diode" \in labels THEN "led"
    ELSE "unknown"

GOOGLE_CONFIDENCE == 60

recognize_with_google(reply) ==
    IF reply.kind = "json_dict"
    THEN RawData(_infer_type_from_labels(reply.labels), Conf("num", GOOGLE_CONFIDENCE),
                 MissingValue, "google_vision")
    ELSE NoResult

recognize_component(provider, reply) ==
    IF provider = "none" THEN NoResult
    ELSE IF provider = "openai" THEN recognize_with_openai(reply)
    ELSE IF provider = "google" THEN recognize_with_google(reply)
    ELSE NoResult

is_available(provider) == provider # "none"

(***************************************************************************)
(* component_classifier.py                                                 *)
(***************************************************************************)
\* The keys of COMPONENT_CATEGORIES in their declaration order
CategoryOrder ==
    <<"resistor", "capacitor", "arduino", "microcontroller", "connector", "ic",
      "led", "transistor", "diode", "sensor", "display", "module", "switch", "relay">>

\* The lists of a category that classify reads; a list the category does not
\* have is empty, as info.get(key, []) makes it.
Category(keywords, common_values, common_parts, manufacturers) ==
    [keywords |-> keywords, common_values |-> common_values,
     common_parts |-> common_parts, manufacturers |-> manufacturers]

COMPONENT_CATEGORIES ==
    [resistor |-> Category(<<"resistor", "resistance", "ohm", "Ω", "kΩ", "MΩ">>,
                           <<"10k", "1k", "100", "220", "330", "470", "1M">>, <<>>, <<>>),
     capacitor |-> Category(<<"capacitor", "cap", "farad", "μF", "nF", "pF">>,
                            <<"100uF", "10uF", "1uF", "0.1uF", "100nF">>, <<>>, <<>>),
     arduino |-> Category(<<"arduino", "uno", "mega", "nano", "mini", "pro micro">>,
                          <<>>, <<>>, <<"Arduino">>),
     microcontroller |->
        Category(<<"mcu", "microcontroller", "atmega", "stm32", "esp32", "esp8266", "pic">>,
                 <<>>, <<>>,
                 <<"Atmel", "STMicroelectronics", "Espressif", "Microchip">>),
     connector |-> Category(<<"connector", "header", "socket", "jst", "dupont",
                              "pin header", "usb">>, <<>>, <<>>, <<>>),
     ic |-> Category(<<"ic", "integrated circuit", "chip", "logic", "timer", "555", "7805">>,
                     <<>>, <<>>, <<>>),
     led |-> Category(<<"led", "light emitting diode", "rgb led", "smd led">>,
                      <<>>, <<>>, <<>>),
     transistor |-> Category(<<"transistor", "mosfet", "bjt", "fet", "2n2222", "bc547">>,
                             <<>>, <<"2N2222", "2N3904", "BC547", "IRFZ44N">>, <<>>),
     diode |-> Category(<<"diode", "rectifier", "1n4007", "1n4148", "schottky">>,
                        <<>>, <<"1N4001", "1N4007", "1N4148", "1N5819">>, <<>>),
     sensor |-> Category(<<"sensor", "temperature", "humidity", "pressure", "motion",
                           "dht", "bmp">>,
                         <<>>, <<"DHT11", "DHT22", "BMP280", "MPU6050", "HC-SR04">>, <<>>),
     display |-> Category(<<"display", "lcd", "oled", "tft", "screen", "7-segment">>,
                          <<>>, <<>>, <<>>),
     module |-> Category(<<"module", "board", "breakout", "shield">>, <<>>, <<>>, <<>>),
     switch |-> Category(<<"switch", "button", "pushbutton", "toggle", "slide">>,
                         <<>>, <<>>, <<>>),
     relay |-> Category(<<"relay", "solid state relay", "ssr">>, <<>>, <<>>, <<>>)]

\* str.lower(), character by character, on the characters the tables and the
\* texts use
\* needle in haystack, for strings
Contains(needle, haystack) ==
    \E i \in 1..(Len(haystack) - Len(needle) + 1) :
        SubSeq(haystack, i, i + Len(needle) - 1) = needle

KEYWORD_SCORE == 10
VALUE_SCORE == 5
MANUFACTURER_SCORE == 3

\* One of the three loops of classify: the score grows by the weight for
\* every entry of the list that occurs in the lower-cased text
RECURSIVE ScoreLoop(_, _, _, _)
ScoreLoop(entries, text_lower, weight, score) ==
    IF entries = <<>> THEN score
    ELSE ScoreLoop(Tail(entries), text_lower, weight,
                   IF Contains(LowerText(Head(entries)), text_lower)
                   THEN score + weight ELSE score)

ValueLoopSkipped(info, text_lower, score) == score

\* lines 121-124: the common values and the common parts
ValueLoop(info, text_lower, score) ==
    ScoreLoop(info.common_values \o info.common_parts, text_lower, VALUE_SCORE, score)

\* lines 114-129: the score of one category
ScoreOf(info, text_lower) ==
    ScoreLoop(info.manufacturers, text_lower, MANUFACTURER_SCORE,
        ValueLoop(info, text_lower,
            ScoreLoop(info.keywords, text_lower, KEYWORD_SCORE, 0)))

\* lines 113-132: the matches, in the order of the dict
Matches(text_lower) ==
    LET F[k \in 0..Len(CategoryOrder)] ==
            IF k = 0 THEN <<>>
            ELSE LET score == ScoreOf(COMPONENT_CATEGORIES[CategoryOrder[k]], text_lower)
                 IN  IF score > 0
                     THEN Append(F[k - 1], [type |-> CategoryOrder[k], score |-> score])
                     ELSE F[k - 1]
    IN  F[Len(CategoryOrder)]

\* A match with score a stays before a later match with score b
StaysBefore(a, b, descending) == IF descending THEN a >= b ELSE a <= b

\* Stable insertion of the later match m into the sorted earlier ones
RECURSIVE InsertBehind(_, _, _)
InsertBehind(m, sorted, descending) ==
    IF sorted = <<>> THEN <<m>>
    ELSE IF StaysBefore(Head(sorted).score, m.score, descending)
    THEN <<Head(sorted)>> \o InsertBehind(m, Tail(sorted), descending)
    ELSE <<m>> \o sorted

\* A stable sort by score
RECURSIVE SortBy(_, _)
SortBy(matches, descending) ==
    IF matches = <<>> THEN <<>>
    ELSE InsertBehind(matches[Len(matches)],
                      SortBy(SubSeq(matches, 1, Len(matches) - 1), descending),
                      descending)

RECURSIVE Reversed(_)
Reversed(q) == IF q = <<>> THEN <<>> ELSE Append(Reversed(Tail(q)), Head(q))

SortAscendingThenReverse(matches) == Reversed(SortBy(matches, FALSE))

\* line 135: list.sort(key=score, reverse=True) is stable: matches of equal
\* score keep their order
SortDescending(matches) == SortBy(matches, TRUE)

classify(text) ==
    LET sorted == SortDescending(Matches(LowerText(text)))
    IN  [i \in 1..Len(sorted) |-> sorted[i].type]

\* The text handed to classify: the fragments joined by blanks
RECURSIVE Join(_)
Join(fragments) ==
    IF fragments = <<>> THEN ""
    ELSE IF Len(fragments) = 1 THEN Head(fragments)
    ELSE Head(fragments) \o " " \o Join(Tail(fragments))

(***************************************************************************)
(* bot.py: handle_photo.  The handler's progress is a record of the         *)
(* variables it writes; each operator below is a stretch of its code and     *)
(* maps the record before to the record after.                               *)
(***************************************************************************)
COLOR_CONFIDENCE == 65
MIN_COLORS == 3
MIN_TEXT_WITH_COLORS == 10
MIN_TEXT_FOR_AI == 3
VISION_ESCALATION == 25
VISION_OVERRIDE == 40
MIN_CONFIDENCE == 20

\* lines 387-395: the candidate built from the colour bands
ColorData(resistance) ==
    Data("resistor", COLOR_CONFIDENCE, Shaped("dict", <<"resistance", resistance>>),
         Shaped("list", <<"resistor", "color-coded", "through-hole">>), MISSING)

\* a reply followed by return (or the reply of the except block)
Finish(h, reply, shown) ==
    [h EXCEPT !.pc = "done", !.replies = Append(@, reply), !.preview = shown]

\* extracted_data.get('recognition_confidence', 0) if extracted_data else 0
ConfidenceOf(d) == IF d.present THEN d.recognition_confidence ELSE 0

\* extracted_data.get('component_type', 'unknown') if extracted_data else 'unknown'
TypeOf(d) ==
    IF ~d.present \/ d.component_type = MISSING THEN "unknown" ELSE d.component_type

FinalGateUnlessPending(h, text) ==
    LET d == h.extracted_data
    IN  IF \/ ~d.present
           \/ ConfidenceOf(d) < MIN_CONFIDENCE
           \/ TypeOf(d) \in {"unknown", "none", ""}
           \/ h.user_data.awaiting
        THEN Finish(h, "low_confidence",
                    IF text = <<>> THEN "no_text_detected" ELSE "text")
        ELSE LET stored == [h EXCEPT !.user_data.component = d]
             IN  IF Truthy(d.specifications) /\ d.specifications.shape # "dict"
                 THEN Finish(stored, "error", "none")
                 ELSE [Finish(stored, "accepted", "none")
                         EXCEPT !.user_data.awaiting = TRUE, !.temp_file = FALSE]

\* lines 471-546: the type and confidence check, the store for confirmation,
\* the summary and the removal of the temporary file; specs.items() raises for
\* a truthy specifications value that is no dict, after the store
FinalGate(h, text) ==
    LET d == h.extracted_data
    IN  IF \/ ~d.present
           \/ ConfidenceOf(d) < MIN_CONFIDENCE
           \/ TypeOf(d) \in {"unknown", "none", ""}
        THEN Finish(h, "low_confidence",
                    IF text = <<>> THEN "no_text_detected" ELSE "text")
        ELSE LET stored == [h EXCEPT !.user_data.component = d]
             IN  IF Truthy(d.specifications) /\ d.specifications.shape # "dict"
                 THEN Finish(stored, "error", "none")
                 ELSE [Finish(stored, "accepted", "none")
                         EXCEPT !.user_data.awaiting = TRUE, !.temp_file = FALSE]

NotIdentifiedGateNoReturn(h, text) ==
    IF ~h.extracted_data.present \/ ConfidenceOf(h.extracted_data) < MIN_CONFIDENCE
    THEN FinalGate(Finish(h, "not_identified", "none"), text)
    ELSE FinalGate(h, text)

\* lines 457-469: the reply when nothing usable came out of text and vision
NotIdentifiedGate(h, text) ==
    IF ~h.extracted_data.present \/ ConfidenceOf(h.extracted_data) < MIN_CONFIDENCE
    THEN Finish(h, "not_identified", "none")
    ELSE FinalGate(h, text)

\* line 435: not extracted_data or confidence < 25
NeedsVision(d) == ~d.present \/ ConfidenceOf(d) < VISION_ESCALATION

\* lines 434-455 up to the call of recognize_component
VisionStep(h, text, provider) ==
    IF NeedsVision(h.extracted_data) /\ is_available(provider)
    THEN [h EXCEPT !.pc = "vision", !.calls = Append(@, "vision")]
    ELSE NotIdentifiedGate(h, text)

VisionOverridesAtLeast(result) ==
    /\ result.present
    /\ result.recognition_confidence.t = "num"
    /\ result.recognition_confidence.v >= VISION_OVERRIDE

\* line 447: vision_result and vision_result.get('recognition_confidence', 0) > 40;
\* a confidence that is no number raises TypeError, caught at line 454, and an
\* absent one counts as 0
VisionOverrides(result) ==
    /\ result.present
    /\ result.recognition_confidence.t = "num"
    /\ result.recognition_confidence.v > VISION_OVERRIDE

VisionData(result) ==
    Data(result.component_type, result.recognition_confidence.v,
         result.specifications, MissingValue, result.recognition_method)

\* lines 445-469 from the return of recognize_component (or its exception)
AfterVision(h, text, result) ==
    NotIdentifiedGate(
        IF VisionOverrides(result)
        THEN [h EXCEPT !.extracted_data = VisionData(result)]
        ELSE h,
        text)

WantsTextAIAlways(text) == TRUE

\* line 427: ocr_text and len(ocr_text) >= 3
WantsTextAI(text) == text # <<>> /\ TextLen(text) >= MIN_TEXT_FOR_AI

\* lines 424-432 up to the call of extract_component_data
TextStep(h, text, provider) ==
    IF WantsTextAI(text)
    THEN [h EXCEPT !.pc = "llm", !.calls = Append(@, "llm")]
    ELSE VisionStep(h, text, provider)

ColorStepIgnoringFailure(h, cols, text, provider) ==
    IF Len(cols) >= MIN_COLORS /\ calculate_resistor_value(cols) # NONE
    THEN FinalGate([h EXCEPT !.extracted_data =
                        ColorData(calculate_resistor_value(cols))], text)
    ELSE TextStep(h, text, provider)

ColorStepThenText(h, cols, text, provider) ==
    IF Len(cols) >= MIN_COLORS
    THEN LET resistance == calculate_resistor_value(cols)
         IN  IF resistance # NONE
             THEN TextStep([h EXCEPT !.extracted_data = ColorData(resistance)],
                           text, provider)
             ELSE Finish(h, "uncalculable_colors", "none")
    ELSE IF Len(cols) >= 1 /\ text # <<>> /\ TextLen(text) < MIN_TEXT_WITH_COLORS
    THEN Finish(h, "insufficient_data", "none")
    ELSE TextStep(h, text, provider)

\* lines 364-432: the colour branch after process_image returned
ColorStep(h, cols, text, provider) ==
    IF Len(cols) >= MIN_COLORS
    THEN LET resistance == calculate_resistor_value(cols)
         IN  IF resistance # NONE
             THEN FinalGate([h EXCEPT !.extracted_data = ColorData(resistance)], text)
             ELSE Finish(h, "uncalculable_colors", "none")
    ELSE IF Len(cols) >= 1 /\ text # <<>> /\ TextLen(text) < MIN_TEXT_WITH_COLORS
    THEN Finish(h, "insufficient_data", "none")
    ELSE TextStep(h, text, provider)

\* The keys the steps of /add and the quantity reply write into the dict:
\* name, specifications, quantity and storage_location; a key is a sequence,
\* empty while the step has not written it
Entries(name, specifications, quantity, storage_location) ==
    [name |-> name, specifications |-> specifications, quantity |-> quantity,
     storage_location |-> storage_location]

NoEntries == Entries(<<>>, <<>>, <<>>, <<>>)

\* The record of the handler's variables and its assignment to the next state
Handler ==
    [pc |-> pc, extracted_data |-> extracted_data, calls |-> calls,
     replies |-> replies, preview |-> preview, user_data |-> user_data,
     temp_file |-> temp_file]

\* lines 492-495 were reached: the handler put its own dict into user_data
Stores(h) ==
    /\ h.pc = "done"
    /\ h.extracted_data.present
    /\ h.replies # <<>>
    /\ h.replies[Len(h.replies)] \in {"accepted", "error"}

Becomes(h) ==
    /\ candidate' = (IF Stores(h) THEN photos ELSE candidate)
    /\ entered' = (IF Stores(h) THEN NoEntries ELSE entered)
    /\ pc' = h.pc
    /\ extracted_data' = h.extracted_data
    /\ calls' = h.calls
    /\ replies' = h.replies
    /\ preview' = h.preview
    /\ user_data' = h.user_data
    /\ temp_file' = h.temp_file

(***************************************************************************)
(* Inputs: the colour names calculate_resistor_value is applied to are the  *)
(* twelve names detect_resistor_colors can return, the alias and the key    *)
(* that appear only in the tables, a name in no table and a capitalised     *)
(* name.  A photograph shows up to MaxDetected pairwise distinct colours of *)
(* PhotoColors and a text of up to MaxWords words of PhotoWords.            *)
(***************************************************************************)
DetectColors ==
    {"black", "brown", "red", "orange", "yellow", "green", "blue", "violet",
     "gray", "white", "gold", "silver"}

BandNames == DetectColors \cup {"grey", "none", "pink", "Red"}

MaxBands == 4

PhotoColors == {"brown", "black", "red", "gold"}

MaxWords == 2

PhotoWords == {"xy", "led", "arduino", "qwertyuiop"}

SeqsUpTo(S, n) == UNION {[1..k -> S] : k \in 0..n}

ColorSeqs ==
    {c \in SeqsUpTo(PhotoColors, MaxDetected) :
        \A i, j \in 1..Len(c) : i # j => c[i] # c[j]}

Texts == SeqsUpTo(PhotoWords, MaxWords)

GoodSpecs == Shaped("dict", <<"resistance", "10k">>)
GoodTags == Shaped("list", <<"smd">>)

LlmConfidences ==
    {Conf("num", v) : v \in {0 - 5, 10, 19, 20, 24, 25, 150}}
        \cup {Conf("numstr", 85), Conf("str", 0), Conf("null", 0), Conf("missing", 0)}

LlmReplies ==
    {LlmReply(k, MISSING, Conf("missing", 0), MissingValue, MissingValue) :
        k \in {"call_failure", "empty", "non_json", "json_other"}}
    \cup {LlmReply("json_dict", t, c, GoodSpecs, GoodTags) :
            t \in {"Resistor", "Widget", "unknown", "", JNULL, MISSING},
            c \in LlmConfidences}
    \cup {LlmReply("json_dict", "resistor", Conf("num", 85), sp, tg) :
            sp \in {MissingValue, Shaped("list", <<"10k">>)},
            tg \in {MissingValue, Shaped("str", <<"smd">>)}}

VisionConfidences ==
    {Conf("num", v) : v \in {0 - 5, 40, 41, 150}}
        \cup {Conf("numstr", 90), Conf("null", 0), Conf("missing", 0)}

VisionReplies(provider) ==
    {VisionReply(k, MISSING, Conf("missing", 0), MissingValue, {}) :
        k \in {"import_error", "api_error"}}
    \cup
    IF provider = "openai"
    THEN {VisionReply(k, MISSING, Conf("missing", 0), MissingValue, {}) :
            k \in {"non_json", "json_other"}}
         \cup {VisionReply("json_dict", t, c, GoodSpecs, {}) :
                 t \in {"resistor", "unknown", JNULL, MISSING}, c \in VisionConfidences}
         \cup {VisionReply("json_dict", "resistor", Conf("num", 90),
                           Shaped("list", <<"10k">>), {})}
    ELSE {VisionReply("json_dict", MISSING, Conf("missing", 0), MissingValue, l) :
            l \in {{}, {"resistor"}, {"board"}, {"cat"}}}

\* ALLOWED_USER_IDS as line 47 splits it from the environment (the empty
\* variable gives [""]), and the users that write to the bot
AllowedLists == {<<"">>, <<"42">>, <<"@bob">>, <<"8", "@eve">>}

Users == {[id |-> "42", username |-> "bob"], [id |-> "7", username |-> ""]}

\* lines 78-87
is_authorized(allowed, user) ==
    IF allowed = <<>> \/ allowed = <<"">> THEN FALSE
    ELSE \/ \E i \in 1..Len(allowed) : allowed[i] = user.id
         \/ /\ user.username # ""
            /\ \E i \in 1..Len(allowed) : allowed[i] = "@" \o user.username

(***************************************************************************)
(* Specification Spec: one photograph handled by handle_photo               *)
(***************************************************************************)
CalcIdle ==
    /\ calc_colors = <<>>
    /\ calc_result = calculate_resistor_value(<<>>)

Init ==
    /\ CalcIdle
    /\ pc = "idle"
    /\ authorized \in {is_authorized(allowed, user) : allowed \in AllowedLists, user \in Users}
    /\ groq_client \in BOOLEAN
    /\ vision_provider \in {"none", "openai", "google"}
    /\ detected_colors = <<>>
    /\ ocr_text = <<>>
    /\ llm_outcome = "not_called"
    /\ text_data = NoData
    /\ vision_outcome = "not_called"
    /\ vision_result = NoResult
    /\ extracted_data = NoData
    /\ calls = <<>>
    /\ replies = <<>>
    /\ preview = "none"
    /\ user_data = [component |-> NoData, awaiting |-> FALSE]
    /\ temp_file = FALSE
    /\ photos = 1
    /\ candidate = 0
    /\ entered = NoEntries
    /\ store = <<>>
    /\ conversation = "none"
    /\ chat_reply = "none"
    /\ cancelled = {}
    /\ class_text = <<>>
    /\ class_result = classify(Join(<<>>))
    /\ ocr_yields = <<>>
    /\ ocr_next = 0
    /\ ocr_results = NewResults(FALSE)
    /\ ocr_tried = <<>>
    /\ band_pc = "idle"
    /\ band_image = NoImage
    /\ band_next = 1
    /\ band_detected = <<>>
    /\ band_result = NoBands
    /\ fallback_text = <<>>
    /\ fallback_result = _fallback_extraction(<<>>)

\* lines 343-353: the authorization check
HandlePhotoUnchecked ==
    /\ pc = "idle"
    /\ Becomes([Handler EXCEPT !.pc = "download"])
    /\ UNCHANGED <<calc_vars, class_vars, ocr_vars, band_vars, fallback_vars, chat_vars,
                   authorized, groq_client, vision_provider, detected_colors, ocr_text,
                   llm_outcome, text_data, vision_outcome, vision_result>>

\* lines 343-353: the handler is entered
HandlePhoto ==
    /\ pc = "idle"
    /\ IF authorized
       THEN Becomes([Handler EXCEPT !.pc = "download"])
       ELSE Becomes(Finish(Handler, "not_authorized", "none"))
    /\ UNCHANGED <<calc_vars, class_vars, ocr_vars, band_vars, fallback_vars, chat_vars, authorized, groq_client, vision_provider, detected_colors, ocr_text,
                   llm_outcome, text_data, vision_outcome, vision_result>>

\* lines 355-358: get_file and download_to_drive succeed or raise
Download ==
    /\ pc = "download"
    /\ \E ok \in BOOLEAN :
          IF ok
          THEN Becomes([Handler EXCEPT !.pc = "ocr", !.temp_file = TRUE])
          ELSE Becomes(Finish(Handler, "error", "none"))
    /\ UNCHANGED <<calc_vars, class_vars, ocr_vars, band_vars, fallback_vars, chat_vars, authorized, groq_client, vision_provider, detected_colors,
                   ocr_text, llm_outcome, text_data, vision_outcome, vision_result>>

\* lines 360-432: process_image returns the colours and the text
ProcessImageOf(seqs, texts) ==
    /\ pc = "ocr"
    /\ \E cols \in seqs, text \in texts :
          /\ detected_colors' = cols
          /\ ocr_text' = text
          /\ Becomes(ColorStep(Handler, cols, text, vision_provider))
    /\ UNCHANGED <<calc_vars, class_vars, ocr_vars, band_vars, fallback_vars, chat_vars, authorized, groq_client, vision_provider,
                   llm_outcome, text_data, vision_outcome, vision_result>>

ProcessImage == ProcessImageOf(ColorSeqs, Texts)

\* lines 429-469: extract_component_data returns
GroqReturnOf(engine) ==
    /\ pc = "llm"
    /\ \E reply \in engine :
          LET data == extract_component_data(groq_client, ocr_text, reply)
          IN  /\ llm_outcome' = LlmFailure(groq_client, reply)
              /\ text_data' = data
              /\ Becomes(VisionStep([Handler EXCEPT !.extracted_data = data],
                                    ocr_text, vision_provider))
    /\ UNCHANGED <<calc_vars, class_vars, ocr_vars, band_vars, fallback_vars, chat_vars, authorized, groq_client, vision_provider, detected_colors,
                   ocr_text, vision_outcome, vision_result>>

GroqReturn == GroqReturnOf(LlmReplies)

\* lines 445-469: recognize_component returns or raises
VisionReturnOf(api) ==
    /\ pc = "vision"
    /\ \E reply \in api :
          LET result == recognize_component(vision_provider, reply)
          IN  /\ vision_outcome' = reply.kind
              /\ vision_result' = result
              /\ Becomes(AfterVision(Handler, ocr_text, result))
    /\ UNCHANGED <<calc_vars, class_vars, ocr_vars, band_vars, fallback_vars, chat_vars, authorized, groq_client, vision_provider, detected_colors,
                   ocr_text, llm_outcome, text_data>>

VisionReturn == VisionReturnOf(VisionReplies(vision_provider))

Next ==
    \/ HandlePhoto
    \/ Download
    \/ ProcessImage
    \/ GroqReturn
    \/ VisionReturn

Spec == Init /\ [][Next]_vars

(***************************************************************************)
(* Specification SpecSession: the updates of one user, handled one at a    *)
(* time: photographs, text messages, /add and /cancel.  The collaborators   *)
(* behave as in Spec, on the photographs and replies listed here.           *)
(***************************************************************************)
MaxPhotos == 2

SessionColors ==
    {<<>>, <<"red">>, <<"brown", "black", "red">>, <<"gold", "brown", "black">>}

SessionTexts == {<<>>, <<"led">>, <<"qwertyuiop">>}

SessionLlmReplies ==
    {LlmReply("call_failure", MISSING, Conf("missing", 0), MissingValue, MissingValue),
     LlmReply("json_dict", "Resistor", Conf("num", 10), GoodSpecs, GoodTags),
     LlmReply("json_dict", "Resistor", Conf("numstr", 85), GoodSpecs, GoodTags)}

SessionVisionReplies(provider) ==
    IF provider = "openai"
    THEN {VisionReply("api_error", MISSING, Conf("missing", 0), MissingValue, {}),
          VisionReply("json_dict", "resistor", Conf("num", 41), GoodSpecs, {}),
          VisionReply("json_dict", "resistor", Conf("num", 90),
                      Shaped("list", <<"10k">>), {})}
    ELSE {VisionReply("json_dict", MISSING, Conf("missing", 0), MissingValue, l) :
            l \in {{"resistor"}, {"cat"}}}

\* The text messages of the user
QuantityTexts == {"skip", "3", "abc", "-1"}

\* int(text) raises ValueError unless the text is an integer literal
IsInt(text) == text \in {"3", "-1"}

\* int(text)
ParseInt(text) == IF text = "3" THEN 3 ELSE 0 - 1

ClearedButAwaiting == [component |-> NoData, awaiting |-> TRUE]

\* context.user_data.clear()
Cleared == [component |-> NoData, awaiting |-> FALSE]

SessionProcessImage == ProcessImageOf(SessionColors, SessionTexts)

SessionGroqReturn == GroqReturnOf(SessionLlmReplies)

SessionVisionReturn == VisionReturnOf(SessionVisionReplies(vision_provider))

\* The next photograph of the user is dispatched to handle_photo: the locals
\* of the new invocation are fresh, context.user_data is the user's.
NextPhoto ==
    /\ pc = "done"
    /\ photos < MaxPhotos
    /\ photos' = photos + 1
    /\ pc' = "idle"
    /\ detected_colors' = <<>>
    /\ ocr_text' = <<>>
    /\ llm_outcome' = "not_called"
    /\ text_data' = NoData
    /\ vision_outcome' = "not_called"
    /\ vision_result' = NoResult
    /\ extracted_data' = NoData
    /\ calls' = <<>>
    /\ replies' = <<>>
    /\ preview' = "none"
    /\ temp_file' = FALSE
    /\ UNCHANGED <<calc_vars, class_vars, ocr_vars, band_vars, fallback_vars, authorized, groq_client, vision_provider, user_data,
                   candidate, entered, store, conversation, chat_reply, cancelled>>

\* The states of the /add conversation whose handler takes a text message
TextStates == {"name", "specs", "quantity", "location"}

\* The pending photograph candidate, if any
Pending == IF user_data.awaiting /\ candidate # 0 THEN {candidate} ELSE {}

\* A row of the components table: the dict that was inserted and the handler
\* that inserted it
Row(component, keys, via) ==
    [component |-> component, entered |-> keys, candidate |-> candidate, via |-> via]

\* handle_photo_quantity: a text message that is no command.  The /add
\* conversation is registered first (line 864), so while it waits for a text
\* the message is its own.
QuantityText ==
    /\ pc \in {"idle", "done"}
    /\ conversation \notin TextStates
    /\ \E text \in QuantityTexts, insert_ok \in BOOLEAN :
          IF ~authorized \/ ~user_data.awaiting
          THEN UNCHANGED <<user_data, candidate, entered, store, chat_reply, cancelled>>
          ELSE IF text = "skip"
          THEN /\ chat_reply' = "not_saved"
               /\ user_data' = Cleared
               /\ candidate' = 0
               /\ entered' = NoEntries
               /\ cancelled' = cancelled \cup Pending
               /\ UNCHANGED store
          ELSE IF ~IsInt(text) \/ ParseInt(text) < 0
          THEN /\ chat_reply' = "invalid_quantity"
               /\ UNCHANGED <<user_data, candidate, entered, store, cancelled>>
          ELSE /\ user_data' = Cleared
               /\ candidate' = 0
               /\ entered' = NoEntries
               /\ UNCHANGED cancelled
               /\ IF insert_ok
                  THEN /\ chat_reply' = "saved"
                       /\ store' = Append(store,
                             Row([user_data.component
                                    EXCEPT !.recognition_method = MISSING],
                                 [entered EXCEPT !.quantity = <<ParseInt(text)>>],
                                 "handle_photo_quantity"))
                  ELSE /\ chat_reply' = "save_error"
                       /\ UNCHANGED store
    /\ UNCHANGED <<calc_vars, class_vars, ocr_vars, band_vars, fallback_vars,
                   photo_vars_but_user_data, photos, conversation>>

\* /add: add_component_start, the entry point of the conversation
AddStart ==
    /\ pc \in {"idle", "done"}
    /\ conversation = "none"
    /\ IF authorized
       THEN conversation' = "type" /\ chat_reply' = "select_type"
       ELSE conversation' = "none" /\ chat_reply' = "not_authorized"
    /\ UNCHANGED <<calc_vars, class_vars, ocr_vars, band_vars, fallback_vars, photo_vars,
                   candidate, entered, photos, store, cancelled>>

\* The buttons and texts of the user in the /add conversation
ManualTypes == {"led"}
ManualNames == {"L1"}
ManualSpecs == {"skip", "5mm"}
ManualLocations == {"skip", "Box 12"}
Confirmations == {"confirm_yes", "confirm_no"}

\* line 211: the dict {'component_type': component_type}
ManualRecord(type) == [NoData EXCEPT !.present = TRUE, !.component_type = type]

\* What the steps of the conversation leave alone
ManualStepUnchanged ==
    UNCHANGED <<calc_vars, class_vars, ocr_vars, band_vars, fallback_vars,
                photo_vars_but_user_data, photos, cancelled>>

\* component_type_selected: a new dict replaces whatever user_data['component']
\* held
TypeSelected ==
    /\ pc \in {"idle", "done"}
    /\ conversation = "type"
    /\ \E type \in ManualTypes :
          user_data' = [user_data EXCEPT !.component = ManualRecord(type)]
    /\ candidate' = 0
    /\ entered' = NoEntries
    /\ conversation' = "name"
    /\ chat_reply' = "enter_name"
    /\ UNCHANGED store
    /\ ManualStepUnchanged

\* A step that raises leaves the state of the conversation as it was
StepRaises ==
    /\ chat_reply' = "raised"
    /\ UNCHANGED <<user_data, candidate, entered, store, conversation>>

\* component_name_entered: user_data['component']['name'] = text
NameEntered ==
    /\ pc \in {"idle", "done"}
    /\ conversation = "name"
    /\ \E text \in ManualNames :
          IF ~user_data.component.present THEN StepRaises
          ELSE /\ entered' = [entered EXCEPT !.name = <<text>>]
               /\ conversation' = "specs"
               /\ chat_reply' = "enter_specs"
               /\ UNCHANGED <<user_data, candidate, store>>
    /\ ManualStepUnchanged

\* component_specs_entered: parse_specifications of the text for the dict's
\* component_type, unless the text is skip
SpecsEntered ==
    /\ pc \in {"idle", "done"}
    /\ conversation = "specs"
    /\ \E text \in ManualSpecs :
          IF text = "skip"
          THEN /\ conversation' = "quantity"
               /\ chat_reply' = "enter_quantity"
               /\ UNCHANGED <<user_data, candidate, entered, store>>
          ELSE IF ~user_data.component.present
                  \/ user_data.component.component_type = MISSING
          THEN StepRaises
          ELSE /\ entered' =
                     [entered EXCEPT !.specifications =
                         <<_extract_specs_by_type(<<text>>,
                                                  user_data.component.component_type)>>]
               /\ conversation' = "quantity"
               /\ chat_reply' = "enter_quantity"
               /\ UNCHANGED <<user_data, candidate, store>>
    /\ ManualStepUnchanged

\* component_quantity_entered
QuantityEntered ==
    /\ pc \in {"idle", "done"}
    /\ conversation = "quantity"
    /\ \E text \in QuantityTexts :
          IF ~IsInt(text) \/ ParseInt(text) < 0
          THEN /\ chat_reply' = "invalid_quantity"
               /\ UNCHANGED <<user_data, candidate, entered, store, conversation>>
          ELSE IF ~user_data.component.present THEN StepRaises
          ELSE /\ entered' = [entered EXCEPT !.quantity = <<ParseInt(text)>>]
               /\ conversation' = "location"
               /\ chat_reply' = "enter_location"
               /\ UNCHANGED <<user_data, candidate, store>>
    /\ ManualStepUnchanged

\* component_location_entered
LocationEntered ==
    /\ pc \in {"idle", "done"}
    /\ conversation = "location"
    /\ \E text \in ManualLocations :
          IF ~user_data.component.present THEN StepRaises
          ELSE /\ entered' = (IF text = "skip" THEN entered
                              ELSE [entered EXCEPT !.storage_location = <<text>>])
               /\ conversation' = "confirm"
               /\ chat_reply' = "summary"
               /\ UNCHANGED <<user_data, candidate, store>>
    /\ ManualStepUnchanged

\* confirm_component: the dict in user_data['component'] is inserted
ConfirmComponent ==
    /\ pc \in {"idle", "done"}
    /\ conversation = "confirm"
    /\ \E answer \in Confirmations, insert_ok \in BOOLEAN :
          IF answer = "confirm_no"
          THEN /\ chat_reply' = "not_saved"
               /\ user_data' = Cleared
               /\ candidate' = 0
               /\ entered' = NoEntries
               /\ conversation' = "none"
               /\ UNCHANGED store
          ELSE IF ~user_data.component.present THEN StepRaises
          ELSE /\ user_data' = Cleared
               /\ candidate' = 0
               /\ entered' = NoEntries
               /\ conversation' = "none"
               /\ IF insert_ok
                  THEN /\ chat_reply' = "saved"
                       /\ store' = Append(store, Row(user_data.component, entered,
                                                     "confirm_component"))
                  ELSE /\ chat_reply' = "save_error"
                       /\ UNCHANGED store
    /\ ManualStepUnchanged

\* /cancel: cancel is a fallback of the /add conversation and is registered
\* nowhere else, so the command is handled only while that conversation is
\* active for the user; otherwise no handler matches the update.
CancelCommand ==
    /\ pc \in {"idle", "done"}
    /\ cancelled' = cancelled \cup Pending
    /\ IF conversation # "none"
       THEN /\ chat_reply' = "cancelled"
            /\ user_data' = Cleared
            /\ candidate' = 0
            /\ entered' = NoEntries
            /\ conversation' = "none"
       ELSE UNCHANGED <<chat_reply, user_data, candidate, entered, conversation>>
    /\ UNCHANGED <<calc_vars, class_vars, ocr_vars, band_vars, fallback_vars,
                   photo_vars_but_user_data, photos, store>>

SessionNext ==
    \/ HandlePhoto
    \/ Download
    \/ SessionProcessImage
    \/ SessionGroqReturn
    \/ SessionVisionReturn
    \/ NextPhoto
    \/ QuantityText
    \/ AddStart
    \/ CancelCommand

SpecSession == Init /\ [][SessionNext]_vars

(***************************************************************************)
(* Specification SpecManual: the updates of one user with the steps of the *)
(* /add conversation, around one photograph without text: the colours      *)
(* settle it.  The user starts /add again while the table has fewer than    *)
(* MaxRows rows.                                                            *)
(***************************************************************************)
MaxRows == 2

ManualColors == {<<>>, <<"brown", "black", "red">>}

ManualTexts == {<<>>}

ManualInit ==
    /\ Init
    /\ groq_client = FALSE
    /\ vision_provider = "none"

ManualProcessImage == ProcessImageOf(ManualColors, ManualTexts)

ManualAddStart ==
    /\ Len(store) < MaxRows
    /\ AddStart

ManualNext ==
    \/ HandlePhoto
    \/ Download
    \/ ManualProcessImage
    \/ QuantityText
    \/ ManualAddStart
    \/ TypeSelected
    \/ NameEntered
    \/ SpecsEntered
    \/ QuantityEntered
    \/ LocationEntered
    \/ ConfirmComponent
    \/ CancelCommand

SpecManual == ManualInit /\ [][ManualNext]_vars

(***************************************************************************)
(* Specification SpecCalc: calculate_resistor_value on its own              *)
(***************************************************************************)
CalcInit ==
    /\ Init
    /\ authorized = FALSE
    /\ groq_client = TRUE
    /\ vision_provider = "none"

\* One more band is read and the value is computed for the longer sequence.
CalcBand ==
    /\ Len(calc_colors) < MaxBands
    /\ \E c \in BandNames :
          /\ calc_colors' = Append(calc_colors, c)
          /\ calc_result' = calculate_resistor_value(Append(calc_colors, c))
    /\ UNCHANGED <<class_vars, ocr_vars, band_vars, fallback_vars, photo_vars, candidate, entered, chat_vars>>

CalcNext == CalcBand

SpecCalc == CalcInit /\ [][CalcNext]_vars

(***************************************************************************)
(* Specification SpecClassify: ComponentClassifier.classify on its own     *)
(***************************************************************************)
MaxFragments == 2

ClassFragments ==
    {"10k resistor 5%", "capacitor cap", "Arduino", "LOGIC chip", "1N4007 diode",
     "relay switch", "2.2MΩ", "xyz", "100uF", "Atmel", "BC547", "led"}

ClassInit ==
    /\ Init
    /\ authorized = FALSE
    /\ groq_client = TRUE
    /\ vision_provider = "none"

\* One more fragment is read and the text is classified again.
ClassifyMore ==
    /\ Len(class_text) < MaxFragments
    /\ \E f \in ClassFragments :
          /\ class_text' = Append(class_text, f)
          /\ class_result' = classify(Join(Append(class_text, f)))
    /\ UNCHANGED <<calc_vars, ocr_vars, band_vars, fallback_vars, photo_vars, candidate, entered, chat_vars>>

ClassNext == ClassifyMore

SpecClassify == ClassInit /\ [][ClassNext]_vars

(***************************************************************************)
(* Specification SpecFallback: _fallback_extraction on its own             *)
(***************************************************************************)
MaxFallbackWords == 2

FallbackWords ==
    {"Arduino", "uno", "r3", "ATmega328", "board", "10KΩ", "100uF", "2560", "LED",
     "usb", "2N2222", "1N4007", "dht22", "xy"}

\* One more word is read and the fallback runs on the longer text.
FallbackMore ==
    /\ Len(fallback_text) < MaxFallbackWords
    /\ \E w \in FallbackWords :
          /\ fallback_text' = Append(fallback_text, w)
          /\ fallback_result' = _fallback_extraction(Append(fallback_text, w))
    /\ UNCHANGED <<calc_vars, class_vars, ocr_vars, band_vars, photo_vars, candidate, entered,
                   chat_vars>>

FallbackNext == FallbackMore

SpecFallback == ClassInit /\ [][FallbackNext]_vars

(***************************************************************************)
(* Specification SpecBands: detect_resistor_colors on its own              *)
(***************************************************************************)
\* The pixel counts each mask may have on an image, around the two limits of
\* the filter (100 pixels, 40% of the 1000 pixels) and with equal counts
PixelCounts ==
    <<{100, 101}, {0, 250}, {0, 399}, {399, 400}, {0, 250}, {0, 101}, {0, 150},
      {0, 250}, {0, 150}, {101, 400}, {0, 250}, {0, 999}>>

RedUpperCounts == {0, 150}

\* The counts of the first n masks
RECURSIVE CountSeqs(_)
CountSeqs(n) ==
    IF n = 0 THEN {<<>>}
    ELSE {Append(c, v) : c \in CountSeqs(n - 1), v \in PixelCounts[n]}

Images ==
    {Image(FALSE, FALSE, <<>>, 0)}
        \cup {Image(TRUE, dense, count, upper) :
                 dense \in BOOLEAN,
                 count \in CountSeqs(Len(COLOR_RANGES)),
                 upper \in RedUpperCounts}

\* lines 132-148: the image is read and its edge density measured
DetectStart ==
    /\ band_pc = "idle"
    /\ \E image \in Images :
          /\ band_image' = image
          /\ band_pc' = IF image.readable /\ ~image.dense THEN "loop" ELSE "done"
    /\ band_result' = NoBands
    /\ UNCHANGED <<band_next, band_detected>>
    /\ UNCHANGED <<calc_vars, class_vars, ocr_vars, fallback_vars, photo_vars, candidate, entered,
                   chat_vars>>

\* lines 171-178: one iteration of the loop over color_ranges
CountColor ==
    /\ band_pc = "loop"
    /\ LET pixel_count == band_image.count[band_next]
       IN  band_detected' =
               IF PassesFilter(pixel_count)
               THEN Append(band_detected, <<COLOR_RANGES[band_next], pixel_count>>)
               ELSE band_detected
    /\ band_next' = band_next + 1
    /\ band_pc' = IF band_next = Len(COLOR_RANGES) THEN "red" ELSE "loop"
    /\ UNCHANGED <<band_image, band_result>>
    /\ UNCHANGED <<calc_vars, class_vars, ocr_vars, fallback_vars, photo_vars, candidate, entered,
                   chat_vars>>

\* lines 181-201: the upper red mask, the sort and the return
SortAndReturn ==
    /\ band_pc = "red"
    /\ band_detected' = SortByCount(WithUpperRed(band_detected, band_image))
    /\ band_result' = BandsOf(WithUpperRed(band_detected, band_image))
    /\ band_pc' = "done"
    /\ UNCHANGED <<band_image, band_next>>
    /\ UNCHANGED <<calc_vars, class_vars, ocr_vars, fallback_vars, photo_vars, candidate, entered,
                   chat_vars>>

BandsNext == DetectStart \/ CountColor \/ SortAndReturn

SpecBands == ClassInit /\ [][BandsNext]_vars

(***************************************************************************)
(* Specification SpecOcr: process_image on its own                         *)
(***************************************************************************)
\* The lengths Tesseract's texts have, around the two thresholds
OcrLengths == {0, 4, 5, 15, 16, 17}

Yields ==
    {Yield(TRUE, 0, 0)}
        \cup {Yield(FALSE, a, b) : a \in OcrLengths, b \in OcrLengths}

\* process_image is called on an image: the colour detection runs first, and
\* the image fixes what every strategy would yield
ProcessImageStart ==
    /\ ocr_next = 0
    /\ \E colors \in BOOLEAN, y \in [1..Len(STRATEGIES) -> Yields] :
          /\ ocr_yields' = y
          /\ ocr_results' = NewResults(colors)
    /\ ocr_next' = 1
    /\ ocr_tried' = <<>>
    /\ UNCHANGED <<calc_vars, class_vars, band_vars, fallback_vars, photo_vars, candidate, entered,
                   chat_vars>>

\* One iteration of the loop; the function returns when the loop is left
TryStrategy ==
    /\ ocr_next \in 1..Len(STRATEGIES)
    /\ LET step == StrategyStep(ocr_results, ocr_next, ocr_yields[ocr_next])
       IN  /\ ocr_results' = step.results
           /\ ocr_next' = step.next
    /\ ocr_tried' = Append(ocr_tried, STRATEGIES[ocr_next])
    /\ UNCHANGED <<ocr_yields, calc_vars, class_vars, band_vars, fallback_vars, photo_vars,
                   candidate, entered, chat_vars>>

OcrNext == ProcessImageStart \/ TryStrategy

SpecOcr == ClassInit /\ [][OcrNext]_vars

(***************************************************************************)
(* Properties of calculate_resistor_value (specification SpecCalc)         *)
(***************************************************************************)
C5_Table(i) ==
    IF i <= 2 THEN DOMAIN RESISTOR_COLOR_CODES
    ELSE IF i = 3 THEN DOMAIN RESISTOR_MULTIPLIERS
    ELSE DOMAIN RESISTOR_TOLERANCE

C5_Unmapped(colors, n) ==
    \E i \in 1..n : i <= Len(colors) /\ Lower(colors[i]) \notin C5_Table(i)

\* The resistance in ohms of a digit pair d and a multiplier 10^e with e >= 0,
\* rendered in the unit its magnitude selects.
C6_Whole(d, e) ==
    LET value == d * Pow10(e)
    IN  IF value >= 1000000 THEN OneDecimal(value \div 100000) \o "MOhm"
        ELSE IF value >= 1000 THEN OneDecimal(value \div 100) \o "kOhm"
        ELSE OneDecimal(value * 10) \o "Ohm"

\* The renderings with one decimal of d * 10^e ohms: exact for e >= -1, a
\* nearest tenth for the hundredths of e = -2.
C6_Renderings(d, e) ==
    IF e >= 0 THEN {C6_Whole(d, e)}
    ELSE IF e = 0 - 1 THEN {OneDecimal(d) \o "Ohm"}
    ELSE {OneDecimal(t) \o "Ohm" :
            t \in {x \in 0..10 : 10 * x - d <= 5 /\ d - 10 * x <= 5}}

\* C5 as stated: no result whenever there are fewer than 3 colours or any of
\* the up to four bands (digit1, digit2, multiplier, tolerance) is absent from
\* the table of its position.
C5_Original ==
    (Len(calc_colors) < 3 \/ C5_Unmapped(calc_colors, 4)) => calc_result = NONE

\* C5 amended: calculate_resistor_value returns no result whenever there are
\* fewer than 3 colours or one of the first three bands (digit1, digit2,
\* multiplier) is absent from the table of its position, and never a partial
\* or zero-filled value; a 4th band absent from the tolerance table does not
\* invalidate the value but appends the default label.
C5_FailClosed ==
    /\ (Len(calc_colors) < 3 \/ C5_Unmapped(calc_colors, 3)) => calc_result = NONE
    /\ (/\ Len(calc_colors) >= 4
        /\ ~C5_Unmapped(calc_colors, 3)
        /\ C5_Unmapped(calc_colors, 4))
       => \E r \in C6_Renderings(
                     RESISTOR_COLOR_CODES[Lower(calc_colors[1])] * 10
                        + RESISTOR_COLOR_CODES[Lower(calc_colors[2])],
                     RESISTOR_MULTIPLIERS[Lower(calc_colors[3])]) :
             calc_result = r \o " " \o DefaultTolerance

C5_Witness ==
    /\ Len(calc_colors) = 4
    /\ Lower(calc_colors[2]) \notin DOMAIN RESISTOR_COLOR_CODES
    /\ Lower(calc_colors[1]) \in DOMAIN RESISTOR_COLOR_CODES
    /\ Lower(calc_colors[3]) \in DOMAIN RESISTOR_MULTIPLIERS
    /\ calc_result = NONE

C6_Suffix(colors) ==
    IF Len(colors) < 4 THEN ""
    ELSE LET c == Lower(colors[4])
         IN  " " \o (IF c \in DOMAIN RESISTOR_TOLERANCE
                     THEN RESISTOR_TOLERANCE[c] ELSE DefaultTolerance)

Handled == pc = "done" /\ authorized

\* process_image has returned
Processed ==
    \/ pc \in {"llm", "vision"}
    \/ Handled /\ (temp_file \/ replies = <<"accepted">>)

\* The four terminal outcomes as replies of the handler: insufficient-data is
\* either of its two messages (lines 412 and 460).
FourOutcomes ==
    {"accepted", "insufficient_data", "not_identified", "low_confidence",
     "uncalculable_colors"}

\* C1 as stated: the handler ends with exactly one of the four terminal
\* outcomes and no other reply, such as the generic error reply, is reachable.
C1_Original ==
    Handled => Len(replies) = 1 /\ replies[1] \in FourOutcomes

\* C1 amended: every invocation for an authorized user runs to its end and
\* reports exactly one reply, which is one of the four terminal outcomes or
\* the generic error reply of the except block; nothing is reported before
\* the end and no two outcomes are reported for the same photograph.
C1_ExactlyOneOutcome ==
    /\ Handled => Len(replies) = 1 /\ replies[1] \in FourOutcomes \cup {"error"}
    /\ pc # "done" => replies = <<>>
    /\ pc # "done" => ENABLED Next

C1_Witness ==
    Handled /\ replies = <<"error">> /\ ~temp_file

\* The gate of C2: the confidence reaches the acceptance threshold and the
\* type is neither empty nor "unknown".
C2_PassesGate(d) ==
    d.recognition_confidence >= 20 /\ d.component_type \notin {"", "unknown"}

\* C2: a candidate is accepted only if it passes the gate, and every candidate
\* that fails the gate yields the low-confidence outcome with the text preview.
C2_Original ==
    Handled /\ Processed /\ extracted_data.present =>
        /\ replies = <<"accepted">> => C2_PassesGate(extracted_data)
        /\ ~C2_PassesGate(extracted_data) =>
              replies = <<"low_confidence">> /\ preview # "none"

C3_Case ==
    Len(detected_colors) >= 3 /\ calculate_resistor_value(detected_colors) # NONE

C4_TextBranch ==
    Processed /\ Len(detected_colors) < 3 /\ replies # <<"insufficient_data">>

C4_Called(x) == \E i \in 1..Len(calls) : calls[i] = x

\* C4: in the branch without a strong colour signal the Structured Extractor
\* is invoked iff the text has at least 3 characters; the Vision Extractor is
\* invoked only after that step has completed or been skipped, only if it
\* produced nothing or a confidence below 25, and only if it is available; its
\* result replaces the text-based candidate iff its confidence is above 40;
\* the vision call never precedes nor overlaps the language-model call.
C4_Cascade ==
    C4_TextBranch =>
        /\ C4_Called("llm") <=> TextLen(ocr_text) >= 3
        /\ calls \in {<<>>, <<"llm">>, <<"vision">>, <<"llm", "vision">>}
        /\ pc = "llm" => calls = <<"llm">> /\ llm_outcome = "not_called"
        /\ C4_Called("vision") =>
              /\ C4_Called("llm") => llm_outcome # "not_called"
              /\ ~text_data.present \/ text_data.recognition_confidence < 25
              /\ vision_provider # "none"
        /\ pc = "done" /\ C4_Called("vision") =>
              IF /\ vision_result.present
                 /\ vision_result.recognition_confidence.t = "num"
                 /\ vision_result.recognition_confidence.v > 40
              THEN /\ extracted_data.recognition_method
                         \in {"openai_vision", "google_vision"}
                   /\ extracted_data.recognition_confidence
                         = vision_result.recognition_confidence.v
                   /\ extracted_data.component_type = vision_result.component_type
              ELSE extracted_data = text_data
        /\ pc = "done" /\ ~C4_Called("vision") => extracted_data = text_data

C4_Witness ==
    /\ pc = "done"
    /\ calls = <<"llm", "vision">>
    /\ text_data.present
    /\ text_data.recognition_confidence = 24
    /\ extracted_data.recognition_method = "openai_vision"
    /\ extracted_data.recognition_confidence = 41

C7_InRange(x) == 0 <= x /\ x <= 100

\* C7: every recognition_confidence carried by a candidate (returned by the
\* Structured Extractor, returned by the Vision Extractor, built by the colour
\* path, compared by the orchestrator or stored) lies in 0..100.
C7_Original ==
    /\ text_data.present => C7_InRange(text_data.recognition_confidence)
    /\ extracted_data.present => C7_InRange(extracted_data.recognition_confidence)
    /\ user_data.component.present =>
          C7_InRange(user_data.component.recognition_confidence)
    /\ vision_result.present /\ vision_result.recognition_confidence.t = "num" =>
          C7_InRange(vision_result.recognition_confidence.v)

C8_Failures ==
    {"no_client", "call_failure", "empty", "non_json", "json_other", "bad_confidence"}

C8_HasWord(w) == \E i \in 1..Len(ocr_text) : ocr_text[i] = w

\* C8: extract_component_data never raises; when no client is configured, the
\* call fails, the reply is empty, no JSON or JSON of the wrong shape, or the
\* confidence is not numeric, it returns what the pattern fallback returns on
\* the same text: a candidate of the first matching category with confidence
\* 30, or nothing when no pattern matches.
C8_DegradesToFallback ==
    /\ pc = "llm" => ENABLED GroqReturn
    /\ llm_outcome # "not_called" => llm_outcome \in C8_Failures \cup {"ok"}
    /\ llm_outcome \in C8_Failures =>
          /\ text_data = _fallback_extraction(ocr_text)
          /\ C8_HasWord("arduino") =>
                /\ text_data.component_type = "arduino"
                /\ text_data.recognition_confidence = 30
          /\ ~C8_HasWord("arduino") /\ C8_HasWord("led") =>
                text_data.component_type = "led"
          /\ ~C8_HasWord("arduino") /\ ~C8_HasWord("led") => ~text_data.present

C8_Witness ==
    /\ llm_outcome = "bad_confidence"
    /\ text_data.present
    /\ text_data.component_type = "led"

\* C9: recognize_component returns "no result" and never raises, for every
\* call failure or parse failure of the configured provider, a failure before
\* the response is received included.
C9_Original ==
    vision_outcome \in {"import_error", "api_error", "non_json", "json_other"} =>
        ~vision_result.raised /\ ~vision_result.present

C10_Case ==
    Len(detected_colors) >= 3 /\ calculate_resistor_value(detected_colors) = NONE

C11_Original ==
    (/\ Processed
     /\ Len(detected_colors) \in 1..2
     /\ TextLen(ocr_text) < 10)
    => /\ pc = "done"
       /\ replies \in {<<"insufficient_data">>, <<"not_identified">>}
       /\ calls = <<>>

\* No signal at all: process_image returned no colour and an empty text
C12_Case == Processed /\ detected_colors = <<>> /\ ocr_text = <<>>

\* The Vision Extractor returned a candidate whose confidence is above 40
C12_VisionCandidate ==
    /\ vision_result.present
    /\ vision_result.recognition_confidence.t = "num"
    /\ vision_result.recognition_confidence.v > 40

\* C12 as stated: with an empty text and no colour the handler ends with the
\* insufficient-data reply, whatever the Vision Extractor is and does.
C12_Original ==
    C12_Case /\ pc = "done" => replies = <<"not_identified">>

\* C12 amended: with an empty text and no colour the Structured Extractor is
\* not invoked and the Vision Extractor is invoked iff it is available; the
\* handler ends with the insufficient-data reply and stores nothing whenever
\* the Vision Extractor is unavailable, raises, returns no result or returns a
\* confidence that is not a number above 40; otherwise the candidate of the
\* Vision Extractor goes to the final gate.
C12_NoSignal ==
    C12_Case =>
        /\ ~C4_Called("llm")
        /\ llm_outcome = "not_called"
        /\ C4_Called("vision") <=> vision_provider # "none"
        /\ pc = "done" /\ ~C12_VisionCandidate =>
              /\ replies = <<"not_identified">>
              /\ ~extracted_data.present
              /\ user_data = [component |-> NoData, awaiting |-> FALSE]
        /\ pc = "done" /\ C12_VisionCandidate =>
              /\ replies \in {<<"accepted">>, <<"low_confidence">>, <<"error">>}
              /\ extracted_data.recognition_method = vision_result.recognition_method

C12_Witness ==
    /\ C12_Case
    /\ pc = "done"
    /\ vision_outcome = "non_json"
    /\ replies = <<"not_identified">>

\* C13: without a strong colour signal, with a text of at least 10 characters,
\* a candidate of the Structured Extractor below the acceptance threshold and
\* no Vision Extractor, the handler ends with the low-confidence reply, which
\* differs from the reply given for an empty text and no colour.
C13_Original ==
    (/\ Handled
     /\ Len(detected_colors) < 3
     /\ TextLen(ocr_text) >= 10
     /\ llm_outcome = "ok"
     /\ text_data.recognition_confidence < 20
     /\ vision_provider = "none")
    => replies = <<"low_confidence">> /\ preview = "text"

\* C14: every candidate that reaches the end of the handler, from whichever
\* path, has a specifications field that is a mapping and a tags field that is
\* a sequence.
C14_Original ==
    extracted_data.present =>
        /\ extracted_data.specifications.shape = "dict"
        /\ extracted_data.tags.shape = "list"

\* The fixed category vocabulary
C15_Vocabulary == {CategoryOrder[i] : i \in 1..Len(CategoryOrder)}

C15_Normalized(d) ==
    d.present => d.component_type \in C15_Vocabulary \cup {"unknown"}

\* C15: the component_type of every candidate (returned by the Structured
\* Extractor, adopted from the Vision Extractor, built from the colours or
\* stored for confirmation) is a lower-case member of the category vocabulary
\* or "unknown".
C15_Original ==
    /\ C15_Normalized(text_data)
    /\ C15_Normalized(extracted_data)
    /\ C15_Normalized(user_data.component)

\* normalize(c) for a candidate c as the paths emit it
C16_Normalize(c) ==
    _validate_and_clean(
        AsArgument(c.component_type, Conf("num", c.recognition_confidence),
                   c.specifications, c.tags))

C16_Idempotent(c) ==
    c.present => C16_Normalize(C16_Normalize(c)) = C16_Normalize(c)

\* The dict returned by the Vision Extractor, as the argument of normalize
C16_VisionArgument ==
    AsArgument(vision_result.component_type, vision_result.recognition_confidence,
               vision_result.specifications, MissingValue)

C17_Original ==
    \A i \in 1..Len(store) : store[i].candidate \notin cancelled

\* An invocation that starts from nothing: no candidate pending, nothing in
\* context.user_data, process_image just returned
C18_Fresh ==
    [pc |-> "ocr", extracted_data |-> NoData, calls |-> <<>>, replies |-> <<>>,
     preview |-> "none", user_data |-> [component |-> NoData, awaiting |-> FALSE],
     temp_file |-> TRUE]

\* What that invocation does with this photograph's colours and text, ...
C18_AfterColors == ColorStep(C18_Fresh, detected_colors, ocr_text, vision_provider)

\* ... with the reply of the Structured Extractor, if it has replied, ...
C18_AfterText ==
    IF C18_AfterColors.pc = "llm" /\ llm_outcome # "not_called"
    THEN VisionStep([C18_AfterColors EXCEPT !.extracted_data = text_data],
                    ocr_text, vision_provider)
    ELSE C18_AfterColors

\* ... and with the reply of the Vision Extractor, if it has replied
C18_AfterVision ==
    IF C18_AfterText.pc = "vision" /\ vision_outcome # "not_called"
    THEN AfterVision(C18_AfterText, ocr_text, vision_result)
    ELSE C18_AfterText

C19_Text == LowerText(Join(class_text))

\* The number of entries of a list that occur in the text, case-insensitively
C19_Hits(entries) ==
    Cardinality({i \in 1..Len(entries) : Contains(LowerText(entries[i]), C19_Text)})

C19_Score(cat) ==
    LET info == COMPONENT_CATEGORIES[cat]
    IN  10 * C19_Hits(info.keywords)
          + 5 * (C19_Hits(info.common_values) + C19_Hits(info.common_parts))
          + 3 * C19_Hits(info.manufacturers)

C19_Index(cat) == CHOOSE k \in 1..Len(CategoryOrder) : CategoryOrder[k] = cat

\* C19: classify returns exactly the categories whose score is above zero,
\* the score being 10 per keyword, 5 per common value or common part and 3
\* per manufacturer that occurs in the text case-insensitively, by descending
\* score and, for equal scores, in the declaration order of the categories.
C19_Classify ==
    /\ {class_result[i] : i \in 1..Len(class_result)}
          = {cat \in C15_Vocabulary : C19_Score(cat) > 0}
    /\ \A i, j \in 1..Len(class_result) :
          i < j =>
             \/ C19_Score(class_result[i]) > C19_Score(class_result[j])
             \/ /\ C19_Score(class_result[i]) = C19_Score(class_result[j])
                /\ C19_Index(class_result[i]) < C19_Index(class_result[j])

C19_Witness ==
    /\ class_text = <<"relay switch", "Atmel">>
    /\ class_result = <<"switch", "relay", "microcontroller">>

C20_Case == Contains("10k resistor 5%", Join(class_text))

\* C20 as stated: for every text that contains "10k resistor 5%" the first
\* category of the result is resistor.
C20_Original ==
    C20_Case => class_result # <<>> /\ class_result[1] = "resistor"

\* C20 amended: for every text that contains "10k resistor 5%" resistor is in
\* the result with a score of at least 15, and it is first iff no other
\* category has a higher score; for the text "10k resistor 5%" alone the
\* result is resistor and nothing else.
C20_ResistorFirst ==
    /\ C20_Case =>
          /\ C19_Score("resistor") >= 15
          /\ \E i \in 1..Len(class_result) : class_result[i] = "resistor"
          /\ class_result[1] = "resistor"
                <=> \A cat \in C15_Vocabulary : C19_Score(cat) <= C19_Score("resistor")
    /\ class_text = <<"10k resistor 5%">> => class_result = <<"resistor">>

C20_Witness ==
    /\ class_text = <<"Arduino", "10k resistor 5%">>
    /\ class_result = <<"resistor", "arduino">>

(***************************************************************************)
(* Properties of process_image (specification SpecOcr)                     *)
(***************************************************************************)
\* process_image has returned
OcrReturned == ocr_next = Len(STRATEGIES) + 1

\* The text strategy i contributes on the image: none when it raises
OcrTextAt(i) ==
    IF ocr_yields[i].failed THEN EmptyText
    ELSE StrategyText(STRATEGIES[i], ocr_yields[i])

\* The first of the strategies 1..n with the longest text
OcrLongest(n) ==
    CHOOSE i \in 1..n :
        /\ \A j \in 1..n : OcrTextAt(j).len <= OcrTextAt(i).len
        /\ \A j \in 1..(i - 1) : OcrTextAt(j).len < OcrTextAt(i).len

\* The strategies are tried in the order balanced, minimal, aggressive, a
\* failing one is passed over, and none is tried after one that yields a text
\* of more than 15 characters
C21_Order ==
    LET n == Len(ocr_tried)
    IN  /\ n \in 1..Len(STRATEGIES)
        /\ ocr_tried = SubSeq(STRATEGIES, 1, n)
        /\ \A i \in 1..(n - 1) : OcrTextAt(i).len <= 15
        /\ n < Len(STRATEGIES) => OcrTextAt(n).len > 15

\* C21 as stated: process_image tries the strategies in the order balanced,
\* minimal, aggressive, skips a failing one, tries none after one that yields
\* more than 15 characters, and returns the longest text among the strategies
\* it tried, the earliest winning ties, with strategy_used naming that
\* strategy.
C21_Original ==
    OcrReturned =>
        /\ C21_Order
        /\ ocr_results.text.len = OcrTextAt(OcrLongest(Len(ocr_tried))).len
        /\ ocr_results.strategy_used = STRATEGIES[OcrLongest(Len(ocr_tried))]

\* C21 amended: the order, the skipping and the early exit are as stated; when
\* some tried strategy yields a non-empty text the result is the longest text
\* among the tried strategies, the earliest winning ties, and strategy_used
\* names its strategy; when none does, the text and strategy_used are both
\* empty.
C21_LongestOfTried ==
    OcrReturned =>
        LET best == OcrLongest(Len(ocr_tried))
        IN  /\ C21_Order
            /\ ocr_results.text = OcrTextAt(best)
            /\ ocr_results.strategy_used =
                  IF OcrTextAt(best).len = 0 THEN "" ELSE STRATEGIES[best]

\* balanced raises, minimal reads 16 characters with the primary
\* configuration, and aggressive is not tried
C21_Witness ==
    /\ OcrReturned
    /\ ocr_yields[1].failed
    /\ ocr_yields[2] = Yield(FALSE, 16, 0)
    /\ ocr_yields[3] = Yield(FALSE, 17, 17)
    /\ ocr_tried = <<"balanced", "minimal">>
    /\ ocr_results.text = Text("minimal", "primary", 16)
    /\ ocr_results.strategy_used = "minimal"

\* What adopting the longest of the three texts, the first in order on ties,
\* gives
C22_Concurrent ==
    LET best == OcrLongest(Len(STRATEGIES))
    IN  [text |-> OcrTextAt(best),
         strategy_used |-> IF OcrTextAt(best).len = 0 THEN "" ELSE STRATEGIES[best]]

C22_Sequential ==
    [text |-> ocr_results.text, strategy_used |-> ocr_results.strategy_used]

\* C22 as stated: for every triple of per-strategy results, adopting the
\* longest of the three texts (first in order on ties) gives the text and
\* strategy_used that the sequential loop with early exit returns.
C22_Original ==
    OcrReturned => C22_Sequential = C22_Concurrent

\* The first strategy whose text has more than 15 characters, 0 when none
C22_FirstGoodEnough ==
    IF \E i \in 1..Len(STRATEGIES) : OcrTextAt(i).len > 15
    THEN CHOOSE i \in 1..Len(STRATEGIES) :
            /\ OcrTextAt(i).len > 15
            /\ \A j \in 1..(i - 1) : OcrTextAt(j).len <= 15
    ELSE 0

\* C22 amended: the sequential loop returns the text of the first strategy in
\* order that yields more than 15 characters and, when there is none, the
\* longest of the three texts (first in order on ties); adopting the longest
\* of the three gives the same result exactly when no strategy after the
\* first one with more than 15 characters yields a strictly longer text.
C22_EarlyExitWinner ==
    OcrReturned =>
        LET first == C22_FirstGoodEnough
        IN  /\ first # 0 =>
                  C22_Sequential = [text |-> OcrTextAt(first),
                                    strategy_used |-> STRATEGIES[first]]
            /\ first = 0 => C22_Sequential = C22_Concurrent
            /\ C22_Sequential = C22_Concurrent
                  <=> \/ first = 0
                      \/ \A j \in (first + 1)..Len(STRATEGIES) :
                            OcrTextAt(j).len <= OcrTextAt(first).len

\* balanced reads 16 characters and the loop returns them; minimal would have
\* read 17
C22_Witness ==
    /\ OcrReturned
    /\ ocr_yields[1] = Yield(FALSE, 16, 0)
    /\ ocr_yields[2] = Yield(FALSE, 17, 0)
    /\ ocr_tried = <<"balanced">>
    /\ ocr_results.strategy_used = "balanced"
    /\ C22_Concurrent.strategy_used = "minimal"

(***************************************************************************)
(* Properties of _fallback_extraction (specification SpecFallback)         *)
(***************************************************************************)
C23_Order ==
    <<"arduino", "microcontroller", "resistor", "capacitor", "ic", "led", "connector",
      "transistor", "diode", "sensor">>

\* The places in the order of the categories with a pattern matching the text
C23_Hits ==
    {k \in 1..Len(C23_Order) : CategoryMatches(C23_Order[k], LowerWords(fallback_text))}

\* C23: the pattern fallback returns no data when no category's pattern
\* matches the text; otherwise it returns a candidate whose type is the first
\* category, in the order arduino, microcontroller, resistor, capacitor, ic,
\* led, connector, transistor, diode, sensor, with a matching pattern, whose
\* confidence is 30 and whose tags are exactly that type.
C23_FirstCategory ==
    IF C23_Hits = {} THEN fallback_result = NoData
    ELSE \E k \in C23_Hits :
            /\ \A m \in C23_Hits : k <= m
            /\ fallback_result.present
            /\ fallback_result.component_type = C23_Order[k]
            /\ fallback_result.recognition_confidence = 30
            /\ fallback_result.tags = Shaped("list", <<C23_Order[k]>>)

\* "LED ATmega328": led and microcontroller match, microcontroller comes first
C23_Witness ==
    /\ fallback_text = <<"LED", "ATmega328">>
    /\ C23_Hits = {2, 6}
    /\ fallback_result.component_type = "microcontroller"
    /\ fallback_result.tags = Shaped("list", <<"microcontroller">>)

C23_NoMatchWitness ==
    /\ fallback_text = <<"uno", "xy">>
    /\ fallback_result = NoData

(***************************************************************************)
(* Properties of detect_resistor_colors (specification SpecBands)          *)
(***************************************************************************)
C24_Returned == band_pc = "done"

\* The masks, by their place in the order of color_ranges (13 is the upper red
\* mask), whose count passes the filter: more than 100 pixels and less than
\* 40% of the image; the upper red mask counts only when the lower does not
C24_Count(k) ==
    IF k = 13 THEN band_image.red_upper_count ELSE band_image.count[k]

C24_Name(k) == IF k = 13 THEN "red" ELSE COLOR_RANGES[k]

C24_Accepted ==
    IF ~band_image.readable THEN {}
    ELSE {k \in 1..13 :
            /\ C24_Count(k) > 100
            /\ C24_Count(k) * 100 < 40 * TOTAL_PIXELS
            /\ k = 13 => ~(C24_Count(3) > 100 /\ C24_Count(3) * 100 < 40 * TOTAL_PIXELS)}

\* The result names between one and four pairwise distinct accepted colours,
\* those with the highest counts, in non-increasing order of count
C24_TopFour ==
    LET names == band_result.detected_colors
    IN  /\ band_result.present
        /\ Len(names) \in 1..4
        /\ Len(names) = IF Cardinality(C24_Accepted) < 4 THEN Cardinality(C24_Accepted)
                        ELSE 4
        /\ \A i, j \in 1..Len(names) : i # j => names[i] # names[j]
        /\ \E place \in [1..Len(names) -> C24_Accepted] :
              /\ \A i \in 1..Len(names) : C24_Name(place[i]) = names[i]
              /\ \A i, j \in 1..Len(names) :
                    i < j => C24_Count(place[i]) >= C24_Count(place[j])
              /\ \A k \in C24_Accepted :
                    (\A i \in 1..Len(names) : place[i] # k)
                        => \A i \in 1..Len(names) : C24_Count(place[i]) >= C24_Count(k)

\* C24 as stated: detect_resistor_colors returns nothing when more than six
\* colours pass the filters or none passes; otherwise it returns between one
\* and four pairwise distinct colour names, the accepted colours with the
\* highest pixel counts in non-increasing order of count.
C24_Original ==
    C24_Returned =>
        IF Cardinality(C24_Accepted) > 6 \/ C24_Accepted = {}
        THEN band_result = NoBands
        ELSE C24_TopFour

\* C24 amended: detect_resistor_colors returns nothing when the image cannot
\* be read, when its edge density is above 0.15, when more than six colours
\* pass the filters or when none passes; otherwise it returns between one and
\* four pairwise distinct colour names, the accepted colours with the highest
\* pixel counts in non-increasing order of count.
C24_DominantColors ==
    C24_Returned =>
        IF \/ ~band_image.readable
           \/ band_image.dense
           \/ Cardinality(C24_Accepted) > 6
           \/ C24_Accepted = {}
        THEN band_result = NoBands
        ELSE C24_TopFour

\* Five colours pass, the upper red mask among them; brown, yellow and violet
\* tie at 250 pixels and stay in the order of color_ranges
C24_Witness ==
    /\ C24_Returned
    /\ band_image = Image(TRUE, FALSE,
                          <<100, 250, 0, 400, 250, 101, 0, 250, 0, 400, 0, 999>>, 150)
    /\ band_result.detected_colors = <<"brown", "yellow", "violet", "red">>

\* Seven colours pass and nothing is returned
C24_TooManyWitness ==
    /\ C24_Returned
    /\ Cardinality(C24_Accepted) = 7
    /\ band_image.readable /\ ~band_image.dense
    /\ band_result = NoBands

(***************************************************************************)
(* Properties of the photograph and quantity dialogue (specification       *)
(* SpecSession)                                                            *)
(***************************************************************************)
\* The photograph handle_photo processed last
C25_LastProcessed == IF pc = "idle" THEN photos - 1 ELSE photos

\* C25: over every sequence of photographs and text messages of one user, an
\* insert triggered by a quantity message stores the candidate of the most
\* recently processed photograph; after a photograph that ended in a
\* non-accepted outcome a numeric message inserts no earlier photograph's
\* candidate.
C25_Original ==
    [][Len(store') > Len(store) => candidate = C25_LastProcessed]_vars

\* The second photograph ended without a candidate and the quantity reply
\* that followed inserted the candidate of the first
C25_StaleInsert ==
    /\ photos = 2
    /\ pc = "done"
    /\ replies = <<"insufficient_data">>
    /\ Len(store) = 1
    /\ store[1].candidate = 1

C27_Step ==
    /\ Len(store') > Len(store) =>
          /\ Len(store') = Len(store) + 1
          /\ SubSeq(store', 1, Len(store)) = store
          /\ user_data.awaiting
          /\ candidate # 0
          /\ store'[Len(store')].candidate = candidate
          /\ \A i \in 1..Len(store) : store[i].candidate # candidate
          /\ ~user_data'.awaiting
          /\ candidate' = 0
    /\ ~user_data.awaiting /\ user_data'.awaiting =>
          /\ replies' # <<>>
          /\ replies'[Len(replies')] = "accepted"
          /\ candidate' = photos
    /\ chat_reply # "invalid_quantity" /\ chat_reply' = "invalid_quantity" =>
          /\ user_data.awaiting
          /\ store' = store
          /\ user_data' = user_data
          /\ candidate' = candidate

\* C27: every accepted photograph candidate is inserted at most once: an
\* insert takes the pending candidate, which no row holds yet, and ends the
\* wait for a quantity, which only a newly accepted photograph starts again;
\* a reply that is no number or a negative one inserts nothing and leaves the
\* candidate pending.
C27_AtMostOnce == [][C27_Step]_vars

\* Two photographs were accepted and each candidate was inserted once
C27_Witness ==
    /\ Len(store) = 2
    /\ store[1].candidate = 1
    /\ store[2].candidate = 2
    /\ ~user_data.awaiting
    /\ chat_reply = "saved"

\* A reply that is no valid quantity was refused and the candidate still waits
C27_PendingWitness ==
    /\ chat_reply = "invalid_quantity"
    /\ user_data.awaiting
    /\ candidate = 1
    /\ store = <<>>

(***************************************************************************)
(* Properties of the /add conversation (specification SpecManual)          *)
(***************************************************************************)
\* The dict as the steps of /add build it: the type of the button and the
\* name and quantity the user entered
C26_ManualRow(row) ==
    /\ row.candidate = 0
    /\ \E type \in ManualTypes : row.component = ManualRecord(type)
    /\ \E name \in ManualNames : row.entered.name = <<name>>
    /\ row.entered.quantity = <<3>>

\* C26: while an /add conversation is in progress the record it builds is
\* changed only by its own steps, so the row the confirmation inserts is the
\* record of those steps, whatever photograph was processed in between, and
\* that record is inserted by the confirmation only.
C26_Original ==
    \A i \in 1..Len(store) :
        store[i].via = "confirm_component" <=> C26_ManualRow(store[i])

\* The confirmation inserted the candidate of the photograph processed during
\* the conversation: a resistor without the name the user had entered
C26_PhotoRowConfirmed ==
    /\ Len(store) = 1
    /\ store[1].via = "confirm_component"
    /\ store[1].candidate = 1
    /\ store[1].component.component_type = "resistor"
    /\ store[1].entered.name = <<>>
    /\ store[1].entered.quantity = <<3>>

\* C28: a user who is not in the allowed list, and every user while the
\* allowed list is empty, is not authorized; for such a user no stage of the
\* pipeline runs, nothing is stored for a quantity reply, no conversation
\* starts and no row is inserted, whatever photographs, commands, buttons and
\* text messages are sent.
C28_Locked ==
    /\ \A user \in Users : ~is_authorized(<<>>, user) /\ ~is_authorized(<<"">>, user)
    /\ \A allowed \in AllowedLists, user \in Users :
          (/\ \A i \in 1..Len(allowed) : allowed[i] # user.id
           /\ \A i \in 1..Len(allowed) : allowed[i] # "@" \o user.username)
              => ~is_authorized(allowed, user)
    /\ ~authorized =>
          /\ pc \in {"idle", "done"}
          /\ replies \in {<<>>, <<"not_authorized">>}
          /\ ~temp_file
          /\ detected_colors = <<>>
          /\ ocr_text = <<>>
          /\ calls = <<>>
          /\ extracted_data = NoData
          /\ user_data = Cleared
          /\ entered = NoEntries
          /\ conversation = "none"
          /\ chat_reply \in {"none", "not_authorized"}
          /\ store = <<>>

\* The photograph and the /add of a user who is not authorized were refused
C28_Witness ==
    /\ ~authorized
    /\ pc = "done"
    /\ replies = <<"not_authorized">>
    /\ chat_reply = "not_authorized"
    /\ store = <<>>

(***************************************************************************)
(* Properties of the escalation and of the temporary file (specification   *)
(* Spec)                                                                   *)
(***************************************************************************)
\* The handler as it stands when the Structured Extractor has replied
C29_BeforeVision ==
    [pc |-> "llm", extracted_data |-> text_data, calls |-> <<>>, replies |-> <<>>,
     preview |-> "none", user_data |-> Cleared, temp_file |-> TRUE]

\* The text-based candidate alone passes the gates
C29_TextAloneAccepted ==
    /\ text_data.present
    /\ NotIdentifiedGate(C29_BeforeVision, ocr_text).replies = <<"accepted">>

\* C29: the escalation to the Vision Extractor never makes the outcome worse:
\* when the text-based candidate alone would pass the final gate, the
\* photograph is accepted whatever the Vision Extractor returns.
C29_Original ==
    pc = "done" /\ vision_outcome # "not_called" /\ C29_TextAloneAccepted
        => replies = <<"accepted">>

\* A text-based candidate of confidence 24 would have been accepted; the
\* Vision Extractor's result took its place and the photograph was not
C29_WorseAfterVision ==
    /\ pc = "done"
    /\ C29_TextAloneAccepted
    /\ text_data.recognition_confidence = 24
    /\ VisionOverrides(vision_result)
    /\ TypeOf(extracted_data) = "unknown"
    /\ replies = <<"low_confidence">>

\* C30: the temporary image file is removed by the time handle_photo returns,
\* on every terminal outcome and on the error path.
C30_Original == pc = "done" => ~temp_file

\* The handler returned with the insufficient-data reply and the downloaded
\* file is still there
C30_FileLeft ==
    /\ pc = "done"
    /\ replies = <<"insufficient_data">>
    /\ temp_file
====
